---- MODULE Spec2Model ----
(***************************************************************************)
(* Verification model of polymarket-arb: the divergence evaluator          *)
(* (strategy/divergence.rs), the monitor step of the per-asset window      *)
(* lifecycle that drives it (main.rs, run_asset_loop) and the risk manager  *)
(* (strategy/risk.rs); then, each under a specification of its own, the    *)
(* whole lifecycle loop, the book hub (markets/book.rs), the price         *)
(* aggregator (feeds/aggregator.rs), and the executor with its redemption  *)
(* loop (executor/mod.rs, redemption.rs); and further the lock discipline  *)
(* of the tasks, the start-up order of main, fair_yes on NaN inputs, the   *)
(* window clock, the signal channel between lifecycle and executor, and    *)
(* the executor's cancel timer; the book warm-up wait, the feeds' sends to  *)
(* the aggregator, the book message parser (process_clob_message), the     *)
(* monotonicity of fair_yes, the hub's subscription of sent tokens, and    *)
(* one lifecycle's risk manager over a run of several windows.             *)
(*                                                                         *)
(* Fixed point.  Probabilities, token prices and edges are f64 in the      *)
(* source; here they are integers in units of 1e-4 ("pips"): 0.50 is 5000, *)
(* one cent is 100.  Money (bankroll, pnl, size_usd) is in cents.  Times    *)
(* are whole seconds.  Ratios are compared by cross-multiplication, so no  *)
(* comparison of the source is decided by a rounding of the model.         *)
(***************************************************************************)
EXTENDS Integers, Sequences, FiniteSets, TLC

VARIABLES
    now,              \* wall clock, seconds (discovery::now_secs)
    today,            \* wall clock, days (risk.rs current_day_epoch)
    spot,             \* PriceState.spot_price as published by the aggregator
    books,            \* BookSnapshot: token_id -> TokenBook
    priceDirty,       \* price_watch has an unseen version
    bookDirty,        \* book_watch has an unseen version
    pc,               \* position of the lifecycle: "monitor", "retire", "idle"
    open_price,       \* window.open_price
    open_divergences, \* HashMap<String, OpenDivergence> of the evaluator
    divRisk,          \* the evaluator's own RiskManager (divergence.rs:57)
    risk,             \* the lifecycle's RiskManager (main.rs:181)
    out,              \* what the step just taken produced (events, results)
    hist,             \* history of the window: what was emitted so far
    rout,             \* what the RiskManager call just made did and returned
    tripped,          \* a can_trade call saw the loss cap broken, no new day since
    life,             \* run_asset_loop: position, locals and history of one asset
    hub,              \* markets/book.rs run_loop: connection, subscribed_tokens
    agg,              \* feeds/aggregator.rs spawn: latest ticks, published PriceState
    exec,             \* executor/mod.rs spawn: SharedLiveStats, redemption queue
    redeem,           \* redemption.rs: tracked positions, trade records
    stats,            \* data.rs SharedLiveStats
    tasks,            \* the tasks that take a mutex: position and guards held
    boot,             \* main.rs main: position of startup, tasks spawned so far
    calc,             \* a pure function under test: its inputs and its result
    chan              \* the event channel from the lifecycle to the executor

vars == << now, today, spot, books, priceDirty, bookDirty, pc, open_price,
           open_divergences, divRisk, risk, out, hist, rout, tripped,
           life, hub, agg, exec, redeem, stats, tasks, boot, calc, chan >>

\* the tasks a specification leaves out stand still
Aux == << tasks, boot, calc, chan >>
AuxOff == tasks = << >> /\ boot = << >> /\ calc = << >> /\ chan = << >>
Others == << life, hub, agg, exec, redeem, stats, tasks, boot, calc, chan >>
OthersOff ==
    /\ life = << >> /\ hub = << >> /\ agg = << >>
    /\ exec = << >> /\ redeem = << >> /\ stats = << >>
    /\ AuxOff

-----------------------------------------------------------------------------
(* Bounds of the model and configuration values                            *)

\* window_duration_secs of the modelled window, in seconds
Dur == 3
\* the clock runs from 0 (open_time) to Dur + Overrun
Overrun == 1
\* the day counter runs from 0 to MaxDay
MaxDay == 1
\* [strategy] min_edge, pips (0.02)
MinEdge == 200
\* [strategy] min_move_pct, pips of the open price (0.001)
MinMovePct == 10
\* [strategy] late_window_guard_secs
LateWindowGuardSecs == 2
\* [strategy] max_open_positions
MaxOpenPositions == 2
\* [strategy] max_position_pct, pips (0.01)
MaxPositionPct == 100
\* [strategy] max_daily_loss_pct, pips (0.10)
MaxDailyLossPct == 1000
\* [strategy] seed_usd, cents
SeedUsd == 10000
\* daily_pnl stays within MaxPnlSteps closes of PnlStep cents from 0
MaxPnlSteps == 3

\* the modelled window (markets/discovery Window): opens at 0, closes Dur later
Window == [ slug |-> "w", yes_token |-> "yes", no_token |-> "no",
            open_time |-> 0, close_time |-> 0 + Dur ]
MaxTime == Window.close_time + Overrun

Tokens == {Window.yes_token, Window.no_token}

\* spot prices the aggregator can publish
Spots == {8000, 8010}

\* top-of-book quotes <<best_bid, best_ask>> the hub can store per token, pips
Quotes(tok) ==
    IF tok = Window.yes_token
    THEN { <<4800, 5200>>, <<3800, 4200>>, <<0, 5200>>, <<9000, 9800>> }
    ELSE { <<4800, 5200>>, <<2800, 3200>> }

-----------------------------------------------------------------------------
(* Arithmetic helpers                                                      *)

Min(a, b) == IF a <= b THEN a ELSE b
Max(a, b) == IF a >= b THEN a ELSE b
Abs(a) == IF a < 0 THEN 0 - a ELSE a
\* f64::clamp(lo, hi)
Clamp(x, lo, hi) == Max(lo, Min(x, hi))

-----------------------------------------------------------------------------
(* markets/fair_value.rs                                                   *)

\* a fair value that prices the size of the move and forgets its direction
FairYesUnsigned(spot_now, open, trNum, trDen) ==
    IF open <= 0 \/ spot_now <= 0 THEN 5000
    ELSE IF trNum < 0 THEN 5000
    ELSE LET elapsedNum == Clamp(trDen - trNum, 0, trDen)
             certNum == 3 * trDen + 7 * elapsedNum
             raw == (Abs(spot_now - open) * 80 * certNum * 1000) \div (open * trDen)
             shift == Clamp(raw, 0 - 4500, 4500)
         IN  Clamp(5000 + shift, 500, 9500)

\* fair_yes(spot_now, open_price, time_remaining_frac), the fraction given as
\* trNum / trDen (trDen > 0).  Result in pips.
FairYes(spot_now, open, trNum, trDen) ==
    IF open <= 0 \/ spot_now <= 0 THEN 5000
    ELSE IF trNum < 0 THEN 5000
    ELSE LET \* elapsed_frac = (1 - time_remaining_frac).clamp(0, 1), times trDen
             elapsedNum == Clamp(trDen - trNum, 0, trDen)
             \* certainty = 0.3 + 0.7 * elapsed_frac, times 10 * trDen
             certNum == 3 * trDen + 7 * elapsedNum
             \* move_pct * 80 * certainty, in pips
             raw == ((spot_now - open) * 80 * certNum * 1000) \div (open * trDen)
             shift == Clamp(raw, 0 - 4500, 4500)
         IN  Clamp(5000 + shift, 500, 9500)

FairNo(spot_now, open, trNum, trDen) == 10000 - FairYes(spot_now, open, trNum, trDen)

-----------------------------------------------------------------------------
(* markets/book.rs                                                         *)

\* parse_book_update: the TokenBook built from the best bid and best ask of
\* a "book" / "price_change" message (bid = 0: no bid with positive size)
ParseBookUpdate(bid, ask) ==
    [ best_bid |-> bid, best_ask |-> ask,
      mid |-> IF bid > 0 THEN (bid + ask) \div 2 ELSE 0 ]

\* books.get(token).map(|b| b.mid).unwrap_or(0.0)
MidOf(bks, token) == IF token \in DOMAIN bks THEN bks[token].mid ELSE 0
\* books.get(token).map(|b| b.best_ask).unwrap_or(0.0)
AskOf(bks, token) == IF token \in DOMAIN bks THEN bks[token].best_ask ELSE 0

-----------------------------------------------------------------------------
(* strategy/risk.rs                                                        *)

\* RiskManager::new
NewRisk(day) ==
    [ bankroll |-> IF SeedUsd > 0 THEN SeedUsd ELSE 10000,
      daily_pnl |-> 0, open_positions |-> 0,
      day_start_epoch |-> day, killed |-> FALSE ]

\* RiskManager::maybe_reset_day
MaybeResetDay(r, day) ==
    IF day # r.day_start_epoch
    THEN [r EXCEPT !.daily_pnl = 0, !.killed = FALSE, !.day_start_epoch = day]
    ELSE r

\* can_trade without the `if self.killed` early return: the loss cap is
\* compared afresh on every call
CanTradeForgetsKill(r, day) ==
    LET r1 == MaybeResetDay(r, day)
    IN  IF r1.open_positions >= MaxOpenPositions THEN [risk |-> r1, ok |-> FALSE]
        ELSE IF r1.daily_pnl * 10000 < 0 - (r1.bankroll * MaxDailyLossPct)
             THEN [risk |-> [r1 EXCEPT !.killed = TRUE], ok |-> FALSE]
        ELSE [risk |-> r1, ok |-> TRUE]

\* can_trade with `>` for `>=` in the open-positions test
CanTradeOffByOne(r, day) ==
    LET r1 == MaybeResetDay(r, day)
    IN  IF r1.killed THEN [risk |-> r1, ok |-> FALSE]
        ELSE IF r1.open_positions > MaxOpenPositions THEN [risk |-> r1, ok |-> FALSE]
        ELSE IF r1.daily_pnl * 10000 < 0 - (r1.bankroll * MaxDailyLossPct)
             THEN [risk |-> [r1 EXCEPT !.killed = TRUE], ok |-> FALSE]
        ELSE [risk |-> r1, ok |-> TRUE]

\* RiskManager::can_trade: the manager after the call and the value returned
CanTrade(r, day) ==
    LET r1 == MaybeResetDay(r, day)
    IN  IF r1.killed THEN [risk |-> r1, ok |-> FALSE]
        ELSE IF r1.open_positions >= MaxOpenPositions THEN [risk |-> r1, ok |-> FALSE]
        \* daily_pnl < -(bankroll * max_daily_loss_pct), both sides times 10000
        ELSE IF r1.daily_pnl * 10000 < 0 - (r1.bankroll * MaxDailyLossPct)
             THEN [risk |-> [r1 EXCEPT !.killed = TRUE], ok |-> FALSE]
        ELSE [risk |-> r1, ok |-> TRUE]

\* RiskManager::position_size before the absolute cap: max_shares * price,
\* cents (edge and price in pips)
PositionSizeUncapped(r, edge, price) ==
    LET base == (r.bankroll * MaxPositionPct) \div 10000
        \* edge_mult = (edge / 0.05).min(2.0).max(1.0), in pips
        edge_mult == Max(Min((edge * 10000) \div 500, 20000), 10000)
        size == (base * edge_mult) \div 10000
        \* max_shares * price = size / price.max(0.01) * price
    IN  (size * price) \div Max(price, 100)

\* RiskManager::position_size, cents (edge and price in pips)
PositionSize(r, edge, price) ==
    Min(PositionSizeUncapped(r, edge, price), (r.bankroll * 200) \div 10000)

\* a record_fill that does not count the position
RecordFillNot(r, size_usd) == r

\* RiskManager::record_fill
RecordFill(r, size_usd) == [r EXCEPT !.open_positions = @ + 1]

\* RiskManager::record_close (usize::saturating_sub)
RecordClose(r, pnl) ==
    [r EXCEPT !.open_positions = IF @ > 0 THEN @ - 1 ELSE 0,
              !.daily_pnl = @ + pnl]

\* RiskManager::update_bankroll
UpdateBankroll(r, balance) == [r EXCEPT !.bankroll = balance]

-----------------------------------------------------------------------------
(* strategy/divergence.rs: the evaluation of one market                    *)

\* |edge / clob_mid| > min_edge, by cross-multiplication (clob_mid > 0)
EdgeExceeds(edge, clob_mid) == Abs(edge) * 10000 > MinEdge * clob_mid

\* edge_pct = edge / clob_mid, pips, rounded toward zero
EdgePct(edge, clob_mid) ==
    IF edge >= 0 THEN (edge * 10000) \div clob_mid
    ELSE 0 - ((Abs(edge) * 10000) \div clob_mid)

\* the cross-check with its lower limit lost
ThinMarketUpperOnly(pair_sum) == pair_sum > 0 /\ pair_sum > 11000

\* the thin-market cross-check on YES + NO
ThinMarket(pair_sum) == pair_sum > 0 /\ (pair_sum < 9000 \/ pair_sum > 11000)

\* the side, token and limit price of the order
PickOrder(w, bks, edge) ==
    IF edge > 0
    THEN [side |-> "BUY_YES", token_id |-> w.yes_token, price |-> AskOf(bks, w.yes_token)]
    ELSE [side |-> "BUY_NO", token_id |-> w.no_token, price |-> AskOf(bks, w.no_token)]

\* price <= 0.0 || price >= 1.0
BadPrice(price) == price <= 0 \/ price >= 10000

\* OpenDivergence entry after `or_insert_with(peak_edge: 0.0)` and the max
TouchDivergence(divs, key, edge_pct) ==
    LET old == IF key \in DOMAIN divs THEN divs[key].peak_edge ELSE 0
    IN  [k \in DOMAIN divs \cup {key} |->
            IF k = key THEN [peak_edge |-> Max(old, Abs(edge_pct))] ELSE divs[k]]

\* open_divergences.remove(&key)
RemoveDivergence(divs, key) == [k \in DOMAIN divs \ {key} |-> divs[k]]

NoEvents(divs, r) ==
    [divs |-> divs, risk |-> r, signals |-> << >>, converged |-> << >>]

\* The body of `for market in &markets` for window w: fair value fv, books
\* bks, the evaluator's OpenDivergence map divs and its RiskManager r.
\* Yields the new map and manager, the Signals sent and the Converged events.
EvaluateMarket(w, fv, bks, divs, r, day) ==
    LET clob_mid == MidOf(bks, w.yes_token)
        no_mid   == MidOf(bks, w.no_token)
        pair_sum == clob_mid + no_mid
        edge     == fv - clob_mid
        key      == w.yes_token
    IN  IF ~(clob_mid > 0) THEN NoEvents(divs, r)
        ELSE IF ThinMarket(pair_sum) THEN NoEvents(divs, r)
        ELSE IF EdgeExceeds(edge, clob_mid)
        THEN LET edge_pct == EdgePct(edge, clob_mid)
                 divs1 == TouchDivergence(divs, key, edge_pct)
                 ct    == CanTrade(r, day)
                 ord   == PickOrder(w, bks, edge)
             IN  IF ~ct.ok THEN NoEvents(divs1, ct.risk)
                 ELSE IF BadPrice(ord.price) THEN NoEvents(divs1, ct.risk)
                 ELSE [ divs |-> divs1, risk |-> ct.risk,
                        signals |-> << [ side |-> ord.side,
                                         token_id |-> ord.token_id,
                                         fair_value |-> fv,
                                         clob_mid |-> clob_mid,
                                         edge |-> edge_pct,
                                         price |-> ord.price,
                                         size_usd |-> PositionSize(ct.risk, Abs(edge_pct), ord.price) ] >>,
                        converged |-> << >> ]
        ELSE IF key \in DOMAIN divs
             THEN [ divs |-> RemoveDivergence(divs, key), risk |-> r,
                    signals |-> << >>,
                    converged |-> << [peak_edge |-> divs[key].peak_edge] >> ]
             ELSE NoEvents(divs, r)

-----------------------------------------------------------------------------
(* main.rs, run_asset_loop: the monitor step                               *)

\* Window::time_remaining = max(0, close_time - now)
TimeRemaining(w, t) == Max(0, w.close_time - t)
\* Window::is_expired
IsExpired(w, t) == t >= w.close_time

\* the fair value the evaluator prices window w at
FairValue(w, s, open, t) ==
    FairYes(s, open, TimeRemaining(w, t), w.close_time - w.open_time)

\* the risk filter over the evaluator's Signals: the manager after it and
\* the Signals that survive, each with size_usd filled in
RECURSIVE RiskFilter(_, _, _)
RiskFilter(sigs, r, day) ==
    IF sigs = << >> THEN [risk |-> r, signals |-> << >>]
    ELSE LET ct == CanTrade(r, day)
             sig == Head(sigs)
         IN  IF ~ct.ok
             THEN RiskFilter(Tail(sigs), ct.risk, day)
             ELSE LET sized == [sig EXCEPT !.size_usd = PositionSize(ct.risk, sig.edge, sig.price)]
                      rest == RiskFilter(Tail(sigs), RecordFill(ct.risk, sized.size_usd), day)
                  IN  [risk |-> rest.risk, signals |-> << sized >> \o rest.signals]

\* the same filter_map over the evaluator's events of both kinds: a Signal
\* goes through can_trade, position_size and record_fill, any other event
\* (`other => Some(other)`) is passed on as it is
RECURSIVE FilterEvents(_, _, _)
FilterEvents(evs, r, day) ==
    IF evs = << >> THEN [risk |-> r, events |-> << >>]
    ELSE LET ev == Head(evs)
         IN  IF ev.kind = "signal"
             THEN LET ct == CanTrade(r, day)
                  IN  IF ~ct.ok
                      THEN FilterEvents(Tail(evs), ct.risk, day)
                      ELSE LET sized == [ev EXCEPT !.sig.size_usd =
                                            PositionSize(ct.risk, ev.sig.edge, ev.sig.price)]
                               rest == FilterEvents(Tail(evs),
                                           RecordFill(ct.risk, sized.sig.size_usd), day)
                           IN  [risk |-> rest.risk, events |-> << sized >> \o rest.events]
             ELSE LET rest == FilterEvents(Tail(evs), r, day)
                  IN  [risk |-> rest.risk, events |-> << ev >> \o rest.events]

\* one call of the evaluator from the monitor loop (the evaluator returns at
\* once on a non-positive spot)
Evaluate(w, s, open, bks, divs, r, t, day) ==
    IF s <= 0 THEN NoEvents(divs, r)
    ELSE EvaluateMarket(w, FairValue(w, s, open, t), bks, divs, r, day)

-----------------------------------------------------------------------------
(* The gate battery of the evaluator's contract, for the statements below  *)

MovePctOk(s, open) == Abs(s - open) * 10000 >= MinMovePct * open
PairSumOk(yes_mid, no_mid) ==
    (yes_mid + no_mid > 0) => (8500 <= yes_mid + no_mid /\ yes_mid + no_mid <= 11500)

\* the side the contract picks: the larger of yes_edge and no_edge
ContractPick(fv_yes, yes_mid, no_mid) ==
    LET yes_edge == fv_yes - yes_mid
        no_edge  == (10000 - fv_yes) - no_mid
    IN  IF yes_edge >= no_edge
        THEN [side |-> "BUY_YES", fair |-> fv_yes, clob_mid |-> yes_mid, edge |-> yes_edge]
        ELSE [side |-> "BUY_NO", fair |-> 10000 - fv_yes, clob_mid |-> no_mid, edge |-> no_edge]

\* price = min(clob_mid + 0.01, fair - 0.01)
ContractPrice(pick) == Min(pick.clob_mid + 100, pick.fair - 100)

\* every gate of the contract passes for window w
ContractGates(w, s, open, bks, t) ==
    LET yes_mid == MidOf(bks, w.yes_token)
        no_mid  == MidOf(bks, w.no_token)
        fv_yes  == FairValue(w, s, open, t)
        pick    == ContractPick(fv_yes, yes_mid, no_mid)
        price   == ContractPrice(pick)
    IN  /\ ~IsExpired(w, t) /\ open > 0
        /\ TimeRemaining(w, t) >= LateWindowGuardSecs
        /\ MovePctOk(s, open)
        /\ (yes_mid > 0 \/ no_mid > 0)
        /\ PairSumOk(yes_mid, no_mid)
        /\ yes_mid >= 2000 /\ no_mid >= 2000
        /\ 3000 <= fv_yes /\ fv_yes <= 7000
        /\ pick.edge > MinEdge
        /\ 3500 <= price /\ price <= 6500
        /\ pick.edge <= 1500

\* every check of the evaluator's code on the way to a Signal passes
CodeGates(w, s, open, bks, t) ==
    LET clob_mid == MidOf(bks, w.yes_token)
        edge == FairValue(w, s, open, t) - clob_mid
    IN  /\ s > 0 /\ clob_mid > 0
        /\ ~ThinMarket(clob_mid + MidOf(bks, w.no_token))
        /\ EdgeExceeds(edge, clob_mid)
        /\ ~BadPrice(PickOrder(w, bks, edge).price)

-----------------------------------------------------------------------------
(* The window's monitor step and its environment                           *)

NoCall ==
    [ op |-> "none", ok |-> FALSE, newDay |-> FALSE, openBefore |-> 0,
      forwarded |-> << >>, edge |-> 0, price |-> 0, size |-> 0, uncapped |-> 0,
      events |-> << >> ]

Quiet ==
    [ evaluated |-> FALSE, signals |-> << >>, converged |-> << >>,
      forwarded |-> << >>, hadEntry |-> FALSE, prevPass |-> FALSE,
      sidesBefore |-> {}, epSignal |-> FALSE, epMaxEdge |-> 0,
      openBefore |-> 0 ]

Sides(sigs) == {sigs[i].side : i \in DOMAIN sigs}

Init ==
    /\ now = Window.open_time
    /\ today = 0
    /\ spot \in Spots
    /\ open_price = spot
    /\ books = << >>
    /\ priceDirty = TRUE
    /\ bookDirty = FALSE
    /\ pc = "monitor"
    /\ open_divergences = << >>
    /\ divRisk = NewRisk(today)
    /\ risk = NewRisk(today)
    /\ out = Quiet
    /\ hist = [runPass |-> FALSE, sides |-> {}, epSignal |-> FALSE, epMaxEdge |-> 0]
    /\ rout = NoCall
    /\ tripped = FALSE
    /\ OthersOff

\* the wall clock advances
Tick ==
    /\ pc # "idle"
    /\ now < MaxTime
    /\ now' = now + 1
    /\ out' = Quiet
    /\ UNCHANGED << today, spot, books, priceDirty, bookDirty, pc, open_price,
                    open_divergences, divRisk, risk, hist, rout, tripped >>
    /\ UNCHANGED Others

\* the aggregator publishes a new PriceState
PriceUpdate ==
    /\ pc # "idle"
    /\ \E p \in Spots : spot' = p
    /\ priceDirty' = TRUE
    /\ out' = Quiet
    /\ UNCHANGED << now, today, books, bookDirty, pc, open_price,
                    open_divergences, divRisk, risk, hist, rout, tripped >>
    /\ UNCHANGED Others

\* the book hub stores a TokenBook for a token
BookUpdate ==
    /\ pc # "idle"
    /\ \E tok \in Tokens : \E q \in Quotes(tok) :
          books' = [k \in DOMAIN books \cup {tok} |->
                       IF k = tok THEN ParseBookUpdate(q[1], q[2]) ELSE books[k]]
    /\ bookDirty' = TRUE
    /\ out' = Quiet
    /\ UNCHANGED << now, today, spot, priceDirty, pc, open_price,
                    open_divergences, divRisk, risk, hist, rout, tripped >>
    /\ UNCHANGED Others

\* one iteration of the monitor loop: select! wakes on a changed watch, the
\* evaluator runs on the latest spot and books, the risk filter sizes or
\* drops its Signals, the events are sent, and the loop tests is_expired
\* price_watch.changed() or book_watch.changed() wakes the monitor loop: one
\* evaluation, its events filtered by the lifecycle's risk manager
MonitorStep ==
    /\ pc = "monitor"
    /\ \/ priceDirty /\ priceDirty' = FALSE /\ UNCHANGED bookDirty
       \/ bookDirty /\ bookDirty' = FALSE /\ UNCHANGED priceDirty
    /\ LET ev  == Evaluate(Window, spot, open_price, books, open_divergences,
                           divRisk, now, today)
           flt == RiskFilter(ev.signals, risk, today)
           key == Window.yes_token
           had == key \in DOMAIN open_divergences
       IN  /\ open_divergences' = ev.divs
           /\ divRisk' = ev.risk
           /\ risk' = flt.risk
           /\ out' = [ evaluated |-> TRUE, signals |-> ev.signals,
                       converged |-> ev.converged, forwarded |-> flt.signals,
                       hadEntry |-> had, prevPass |-> hist.runPass,
                       sidesBefore |-> hist.sides,
                       epSignal |-> had /\ hist.epSignal,
                       epMaxEdge |-> hist.epMaxEdge,
                       openBefore |-> risk.open_positions ]
           /\ hist' = [ runPass |-> /\ ContractGates(Window, spot, open_price, books, now)
                                    /\ CodeGates(Window, spot, open_price, books, now),
                        sides |-> hist.sides \cup Sides(ev.signals),
                        epSignal |-> /\ key \in DOMAIN ev.divs
                                     /\ ((had /\ hist.epSignal) \/ ev.signals # << >>),
                        epMaxEdge |->
                            IF key \in DOMAIN ev.divs
                            THEN Max(IF had THEN hist.epMaxEdge ELSE 0,
                                     Abs(FairValue(Window, spot, open_price, now)
                                         - MidOf(books, key)))
                            ELSE 0 ]
    /\ pc' = IF IsExpired(Window, now) THEN "retire" ELSE "monitor"
    /\ UNCHANGED << now, today, spot, books, open_price, rout, tripped >>

MonitorWake == MonitorStep /\ UNCHANGED Others

\* the window is retired: window-close alert, published status cleared
Retire ==
    /\ pc = "retire"
    /\ pc' = "idle"
    /\ out' = Quiet
    /\ UNCHANGED << now, today, spot, books, priceDirty, bookDirty, open_price,
                    open_divergences, divRisk, risk, hist, rout, tripped >>
    /\ UNCHANGED Others

Next == Tick \/ PriceUpdate \/ BookUpdate \/ MonitorWake \/ Retire

Spec == Init /\ [][Next]_vars

-----------------------------------------------------------------------------
(* Statements about the evaluator and the monitor step (specification Spec) *)

\* In the state after an evaluation the clock, spot and books are still the
\* ones the evaluation read.
YesMid == MidOf(books, Window.yes_token)
NoMid == MidOf(books, Window.no_token)
FvYes == FairValue(Window, spot, open_price, now)
GatesPassNow ==
    /\ ContractGates(Window, spot, open_price, books, now)
    /\ CodeGates(Window, spot, open_price, books, now)
EntryOpen == Window.yes_token \in DOMAIN open_divergences

\* C1: in a run of evaluator calls on which every gate passes, the first
\* call emits exactly one Signal and every later call of the run emits none.
C1_SingleShotPerEpisode ==
    (out.evaluated /\ GatesPassNow) =>
        Len(out.signals) = IF out.prevPass THEN 0 ELSE 1

\* C2: over the life of a window at most one Signal is emitted per side: no
\* evaluation emits a Signal for a side that was already signalled.
C2_OneSignalPerSide ==
    out.evaluated =>
        \A i \in DOMAIN out.signals : out.signals[i].side \notin out.sidesBefore

\* C3: an evaluation on which some gate fails leaves no OpenDivergence entry
\* for the window, and closes an existing one with one Converged event.
C3_GateFailureCloses ==
    (out.evaluated /\ ~ContractGates(Window, spot, open_price, books, now)) =>
        /\ ~EntryOpen
        /\ (out.hadEntry => Len(out.converged) = 1)

\* C4: a Converged event is emitted only by an evaluation on which a gate
\* fails while an entry exists, once, after the Signal of the same episode,
\* and its peak_edge is the largest edge seen in the episode.
C4_ConvergedFollowsSignal ==
    (out.evaluated /\ out.converged # << >>) =>
        /\ Len(out.converged) = 1
        /\ out.hadEntry
        /\ ~ContractGates(Window, spot, open_price, books, now)
        /\ out.signals = << >>
        /\ out.epSignal
        /\ out.converged[1].peak_edge = out.epMaxEdge

\* C5: every Signal is priced at min(clob_mid + 0.01, fair - 0.01) of the
\* side it buys.
C5_ImprovingPrice ==
    out.evaluated =>
        \A i \in DOMAIN out.signals :
            LET sig == out.signals[i]
                mid == IF sig.side = "BUY_YES" THEN YesMid ELSE NoMid
                fair == IF sig.side = "BUY_YES" THEN FvYes ELSE 10000 - FvYes
            IN  sig.price = Min(mid + 100, fair - 100)

\* C6: every Signal has min_edge < edge <= 0.15 and 0.35 <= price <= 0.65,
\* edge being fair - mid of the side bought; and no Signal is emitted when
\* the larger of yes_edge and no_edge does not exceed min_edge.
C6_EdgeAndPriceLimits ==
    out.evaluated =>
        /\ \A i \in DOMAIN out.signals :
              LET sig == out.signals[i]
                  mid == IF sig.side = "BUY_YES" THEN YesMid ELSE NoMid
                  fair == IF sig.side = "BUY_YES" THEN FvYes ELSE 10000 - FvYes
              IN  /\ MinEdge < fair - mid /\ fair - mid <= 1500
                  /\ 3500 <= sig.price /\ sig.price <= 6500
        /\ (ContractPick(FvYes, YesMid, NoMid).edge <= MinEdge => out.signals = << >>)

\* C7: an evaluation with both mids positive and |1 - (yes_mid + no_mid)|
\* above 0.15 emits no Signal; with yes_mid = 0.40 and no_mid = 0.30 it
\* yields no event at all.
C7_PairSumGate ==
    (out.evaluated /\ YesMid > 0 /\ NoMid > 0 /\ Abs(10000 - (YesMid + NoMid)) > 1500) =>
        /\ out.signals = << >>
        /\ out.forwarded = << >>
        /\ ((YesMid = 4000 /\ NoMid = 3000) => out.converged = << >>)

\* an evaluation of yes_mid = 0.40, no_mid = 0.30 whose edge exceeds min_edge
C7_Witness ==
    /\ out.evaluated /\ YesMid = 4000 /\ NoMid = 3000
    /\ EdgeExceeds(FvYes - YesMid, YesMid)

\* C8: no evaluation with close_time - now below late_window_guard_secs
\* emits or forwards a Signal, in particular none at or after close_time.
C8_LateWindowGuard ==
    (out.evaluated /\ Window.close_time - now < LateWindowGuardSecs) =>
        /\ out.signals = << >>
        /\ out.forwarded = << >>

-----------------------------------------------------------------------------
(* The RiskManager under any sequence of calls (specification SpecRisk)    *)

\* pnl of a closed position, cents
Pnls == {0 - 600, 600}
\* balances update_bankroll can be given, cents
Balances == {5000, SeedUsd}
\* Signals the evaluator can hand to the risk filter
SampleSignals ==
    { [ side |-> "BUY_YES", token_id |-> Window.yes_token, fair_value |-> 5300,
        clob_mid |-> 4000, edge |-> 3250, price |-> 4200, size_usd |-> 0 ] }

\* edges and prices position_size can be given, pips: an edge below, at and
\* above 0.05, a price below the 0.01 floor, at it, and a usual one
SizeEdges == {200, 500, 1200}
SizePrices == {50, 100, 4200}

\* the comparison of can_trade is reached and finds daily_pnl below the cap
SeesLossCap(r, day) ==
    LET r1 == MaybeResetDay(r, day)
    IN  /\ ~r1.killed
        /\ r1.open_positions < MaxOpenPositions
        /\ r1.daily_pnl * 10000 < 0 - (r1.bankroll * MaxDailyLossPct)

InitRisk ==
    /\ now = Window.open_time
    /\ today = 0
    /\ spot = 8000
    /\ open_price = spot
    /\ books = << >>
    /\ priceDirty = FALSE
    /\ bookDirty = FALSE
    /\ pc = "idle"
    /\ open_divergences = << >>
    /\ divRisk = NewRisk(today)
    /\ risk = NewRisk(today)
    /\ out = Quiet
    /\ hist = [runPass |-> FALSE, sides |-> {}, epSignal |-> FALSE, epMaxEdge |-> 0]
    /\ rout = NoCall
    /\ tripped = FALSE
    /\ OthersOff

RiskFrame ==
    UNCHANGED << now, spot, books, priceDirty, bookDirty, pc, open_price,
                 open_divergences, divRisk, out, hist, life, hub, agg, exec,
                 redeem, stats,
                 tasks, boot, calc, chan >>

\* midnight UTC passes
DayRollover ==
    /\ today < MaxDay
    /\ today' = today + 1
    /\ rout' = NoCall
    /\ UNCHANGED << risk, tripped >>
    /\ RiskFrame

\* risk.can_trade()
CallCanTrade ==
    /\ LET ct == CanTrade(risk, today)
       IN  /\ risk' = ct.risk
           /\ rout' = [ NoCall EXCEPT !.op = "can_trade", !.ok = ct.ok,
                        !.newDay = today # risk.day_start_epoch,
                        !.openBefore = risk.open_positions ]
    /\ tripped' = IF SeesLossCap(risk, today) THEN TRUE
                  ELSE IF today # risk.day_start_epoch THEN FALSE
                  ELSE tripped
    /\ UNCHANGED today
    /\ RiskFrame

\* the lifecycle's filter on one Signal: can_trade, position_size, record_fill
CallForward ==
    /\ \E sig \in SampleSignals :
          LET flt == RiskFilter(<< sig >>, risk, today)
          IN  /\ risk' = flt.risk
              /\ rout' = [ NoCall EXCEPT !.op = "forward", !.ok = flt.signals # << >>,
                           !.newDay = today # risk.day_start_epoch,
                           !.openBefore = risk.open_positions,
                           !.forwarded = flt.signals ]
    /\ tripped' = IF SeesLossCap(risk, today) THEN TRUE
                  ELSE IF today # risk.day_start_epoch THEN FALSE
                  ELSE tripped
    /\ UNCHANGED today
    /\ RiskFrame

\* the events one evaluation can return: at most MaxEvents of them
MaxEvents == 3
SignalEvent(sig) == [ kind |-> "signal", sig |-> sig ]
ConvergedEvent(peak) == [ kind |-> "converged", peak_edge |-> peak ]
SampleEvents ==
    { SignalEvent(sig) : sig \in SampleSignals }
    \cup { SignalEvent([ side |-> "BUY_NO", token_id |-> Window.no_token,
                         fair_value |-> 4700, clob_mid |-> 6000, edge |-> 0 - 2166,
                         price |-> 4100, size_usd |-> 0 ]),
           ConvergedEvent(3250) }
EventLists == UNION { [ 1 .. n -> SampleEvents ] : n \in 1 .. MaxEvents }

IsSignal(ev) == ev.kind = "signal"
IsConverged(ev) == ev.kind = "converged"

\* the lifecycle's filter on the events of one evaluation
CallFilter ==
    /\ \E evs \in EventLists :
          LET flt == FilterEvents(evs, risk, today)
              asks == SelectSeq(evs, IsSignal) # << >>
          IN  /\ risk' = flt.risk
              /\ rout' = [ NoCall EXCEPT !.op = "filter", !.events = evs,
                           !.ok = SelectSeq(flt.events, IsSignal) # << >>,
                           !.newDay = asks /\ today # risk.day_start_epoch,
                           !.openBefore = risk.open_positions,
                           !.forwarded = flt.events ]
              /\ tripped' = IF asks /\ SeesLossCap(risk, today) THEN TRUE
                            ELSE IF asks /\ today # risk.day_start_epoch THEN FALSE
                            ELSE tripped
    /\ UNCHANGED today
    /\ RiskFrame

\* risk.record_fill(size)
CallRecordFill ==
    /\ risk.open_positions <= MaxOpenPositions
    /\ risk' = RecordFill(risk, 100)
    /\ rout' = [NoCall EXCEPT !.op = "record_fill", !.openBefore = risk.open_positions]
    /\ UNCHANGED << today, tripped >>
    /\ RiskFrame

\* risk.record_close(pnl)
CallRecordClose ==
    /\ \E pnl \in Pnls :
          /\ Abs(risk.daily_pnl + pnl) <= MaxPnlSteps * 600
          /\ risk' = RecordClose(risk, pnl)
    /\ rout' = [NoCall EXCEPT !.op = "record_close", !.openBefore = risk.open_positions]
    /\ UNCHANGED << today, tripped >>
    /\ RiskFrame

\* risk.update_bankroll(balance)
CallUpdateBankroll ==
    /\ \E b \in Balances : risk' = UpdateBankroll(risk, b)
    /\ rout' = [NoCall EXCEPT !.op = "update_bankroll", !.openBefore = risk.open_positions]
    /\ UNCHANGED << today, tripped >>
    /\ RiskFrame

\* risk.position_size(edge, price)
CallPositionSize ==
    /\ \E edge \in SizeEdges, price \in SizePrices :
          rout' = [ NoCall EXCEPT !.op = "position_size",
                      !.openBefore = risk.open_positions,
                      !.edge = edge, !.price = price,
                      !.size = PositionSize(risk, edge, price),
                      !.uncapped = PositionSizeUncapped(risk, edge, price) ]
    /\ UNCHANGED << today, risk, tripped >>
    /\ RiskFrame

NextRisk ==
    \/ DayRollover \/ CallCanTrade \/ CallForward
    \/ CallRecordFill \/ CallRecordClose \/ CallUpdateBankroll
    \/ CallPositionSize \/ CallFilter

SpecRisk == InitRisk /\ [][NextRisk]_vars

\* the loss cap is not broken now: daily_pnl >= -(bankroll * max_daily_loss_pct)
WithinLossCap == risk.daily_pnl * 10000 >= 0 - (risk.bankroll * MaxDailyLossPct)

\* C9: a can_trade call that finds daily_pnl below the loss cap sets killed
\* and returns false; from then on killed stays set and every can_trade
\* call returns false, whatever record_fill / record_close /
\* update_bankroll calls come between, until a call observes a new day,
\* which leaves daily_pnl = 0 and killed = false.
C9_KillSwitchSticky ==
    /\ tripped => risk.killed
    /\ (tripped /\ rout.op \in {"can_trade", "forward"}) => ~rout.ok
    /\ (rout.op \in {"can_trade", "forward"} /\ rout.newDay) =>
           /\ risk.day_start_epoch = today
           /\ risk.daily_pnl = 0
           /\ ~risk.killed

\* a can_trade call returns false after the kill although daily_pnl has
\* recovered above the cap and a position slot is free
C9_Witness ==
    /\ tripped /\ rout.op = "can_trade" /\ ~rout.ok
    /\ WithinLossCap
    /\ risk.open_positions < MaxOpenPositions

\* C10: can_trade returns false whenever open_positions >= max_open_positions,
\* so the filter forwards no Signal then; record_close takes one off
\* open_positions and never takes it below 0.
C10_OpenPositionsLimit ==
    /\ (rout.op \in {"can_trade", "forward"} /\ rout.openBefore >= MaxOpenPositions) =>
           (~rout.ok /\ rout.forwarded = << >> /\ risk.open_positions = rout.openBefore)
    /\ (rout.op = "forward" /\ rout.ok) =>
           (Len(rout.forwarded) = 1 /\ risk.open_positions = rout.openBefore + 1)
    /\ rout.op = "record_close" =>
           /\ risk.open_positions >= 0
           /\ risk.open_positions = IF rout.openBefore = 0 THEN 0 ELSE rout.openBefore - 1

\* the filter drops a Signal at the limit although the manager is not killed
\* and the loss cap is not broken
C10_Witness ==
    /\ rout.op = "forward" /\ rout.openBefore = MaxOpenPositions
    /\ ~risk.killed /\ WithinLossCap
    /\ rout.forwarded = << >>

\* C11: position_size(edge, price) <= bankroll * 0.02 for every input, and
\* with edge >= 0.05 the size before that cap is at least
\* bankroll * max_position_pct, for every price, prices below 0.01 included.
C11_PositionSizeBounds ==
    rout.op = "position_size" =>
        /\ rout.size * 10000 <= risk.bankroll * 200
        /\ (rout.edge >= 500 =>
               rout.uncapped * 10000 >= risk.bankroll * MaxPositionPct)

-----------------------------------------------------------------------------
(* main.rs run_asset_loop: the lifecycle of one asset (specification       *)
(* SpecLife).  Every await of the loop is a position of life.pc; the clock *)
(* may advance at any of them.                                             *)

\* [discovery] pre_discover_secs
PreDiscoverSecs == 1
\* the clock of the lifecycle runs from 0 to Horizon
Horizon == 8
\* discover_window is called at most MaxCalls times
MaxCalls == 4

\* a window start that rounds the clock up instead of down
CurrentWindowStartCeil(t, d) == ((t + d - 1) \div d) * d

\* clock utilities: current_window_start, next_window_start
CurrentWindowStart(t, d) == (t \div d) * d

\* a next window start that takes the boundary the clock stands on
NextWindowStartAtBoundary(t, d) == ((t + d - 1) \div d) * d

\* next_window_start: the first boundary after the clock
NextWindowStart(t, d) == CurrentWindowStart(t, d) + d

\* close_time as corrected against the venue's endDate: earlier than, at, or
\* later than window_start + duration
Skews == {0 - 1, 0, 1}
\* what discover_window(asset, window_start) can return besides None
DiscoverWindow(ws, skew, id) ==
    [ id |-> id, window_start |-> ws,
      slug |-> "w", yes_token |-> "yes", no_token |-> "no",
      open_time |-> ws + skew, close_time |-> ws + skew + Dur, open_price |-> 0 ]
NoWindow == [ id |-> 0 ]

\* spot prices present at window open: none yet (0) or a price
OpenSpots == {0, 8000}

\* the order of the steps of one pass of the loop
LifecycleOrder ==
    << "discover", "subscribe", "warmup", "wait_open", "capture", "monitor", "retire" >>

\* a mis-ordered lifecycle: the monitor starts straight after the open wait
StepAfterSkipsCapture(step) ==
    CASE step = "discover"  -> "subscribe"
      [] step = "subscribe" -> "warmup"
      [] step = "warmup"    -> "wait_open"
      [] step = "wait_open" -> "monitor"
      [] step = "capture"   -> "monitor"
      [] step = "monitor"   -> "retire"
      [] OTHER              -> "top"

\* the statement that follows each step in run_asset_loop
StepAfter(step) ==
    CASE step = "discover"  -> "subscribe"
      [] step = "subscribe" -> "warmup"
      [] step = "warmup"    -> "wait_open"
      [] step = "wait_open" -> "capture"
      [] step = "capture"   -> "monitor"
      [] step = "monitor"   -> "retire"
      [] OTHER              -> "top"

LifeStart ==
    [ pc |-> "top", paused |-> FALSE, next_start |-> 0, wake_at |-> 0,
      window |-> NoWindow, calls |-> 0,
      \* history
      last |-> "start", steps |-> << >>, writes |-> 0, in_progress |-> {},
      failed |-> {}, alerts |-> 0, sent |-> << >>, sentBefore |-> << >>,
      skipped |-> {}, prev |-> NoWindow ]

InitLife ==
    /\ now \in 0 .. (Dur - 1)
    /\ today = 0
    /\ spot \in OpenSpots
    /\ open_price = 0
    /\ books = << >>
    /\ priceDirty = FALSE
    /\ bookDirty = FALSE
    /\ pc = "idle"
    /\ open_divergences = << >>
    /\ divRisk = NewRisk(today)
    /\ risk = NewRisk(today)
    /\ out = Quiet
    /\ hist = [runPass |-> FALSE, sides |-> {}, epSignal |-> FALSE, epMaxEdge |-> 0]
    /\ rout = NoCall
    /\ tripped = FALSE
    /\ life = LifeStart
    /\ hub = << >> /\ agg = << >> /\ exec = << >> /\ redeem = << >>
    /\ stats = << >>
    /\ AuxOff

LifeFrame ==
    UNCHANGED << today, pc, open_price, open_divergences,
                 divRisk, risk, out, hist, rout, tripped, hub, agg, exec, redeem,
                 stats,
                 tasks, boot, calc, chan >>

\* price_watch and book_watch, the receivers the monitor loop selects on:
\* priceDirty / bookDirty say that one holds a version it has not seen
Monitoring == life.pc \in {"monitor", "select"}

\* the wall clock advances while the lifecycle awaits
LifeTick ==
    /\ now < Horizon
    /\ now' = now + 1
    /\ life' = [life EXCEPT !.last = "env"]
    /\ UNCHANGED << spot, books >>
    /\ UNCHANGED << priceDirty, bookDirty >>
    /\ LifeFrame

\* the aggregator publishes another spot for the asset
LifeSpot ==
    /\ \E p \in OpenSpots \ {spot} : spot' = p
    /\ life' = [life EXCEPT !.last = "env"]
    /\ priceDirty' = (priceDirty \/ Monitoring)
    /\ UNCHANGED << now, books, bookDirty >>
    /\ LifeFrame

\* data/pause.flag is created or removed
LifePause ==
    /\ life' = [life EXCEPT !.paused = ~@, !.last = "env"]
    /\ UNCHANGED << now, spot, books >>
    /\ UNCHANGED << priceDirty, bookDirty >>
    /\ LifeFrame

\* the book hub stores a book for a token whose subscription was sent
LifeBook ==
    /\ life.sent # << >>
    /\ Window.yes_token \notin DOMAIN books
    /\ books' = [k \in {Window.yes_token} |-> ParseBookUpdate(4800, 5200)]
    /\ life' = [life EXCEPT !.last = "env"]
    /\ bookDirty' = (bookDirty \/ Monitoring)
    /\ UNCHANGED << now, spot, priceDirty >>
    /\ LifeFrame

\* loop head, paused: sleep 5 s and start over
LifePauseGate ==
    /\ life.pc = "top" /\ life.paused
    /\ life' = [life EXCEPT !.last = "paused"]
    /\ UNCHANGED << now, spot, books >>
    /\ UNCHANGED << priceDirty, bookDirty >>
    /\ LifeFrame

\* loop head: next_start, discover_at, and the sleep until discover_at if
\* that is still ahead
LifeSchedule ==
    /\ life.pc = "top" /\ ~life.paused
    /\ LET next_start == NextWindowStart(now, Dur)
           discover_at == next_start - PreDiscoverSecs
       IN  life' = [life EXCEPT !.next_start = next_start,
                                !.wake_at = discover_at,
                                !.pc = IF discover_at - now > 0 THEN "sleep" ELSE "discover",
                                !.last = "schedule"]
    /\ UNCHANGED << now, spot, books >>
    /\ UNCHANGED << priceDirty, bookDirty >>
    /\ LifeFrame

\* the sleep until discover_at returns
LifeWake ==
    /\ life.pc = "sleep" /\ now >= life.wake_at
    /\ life' = [life EXCEPT !.pc = "discover", !.last = "wake"]
    /\ UNCHANGED << now, spot, books >>
    /\ UNCHANGED << priceDirty, bookDirty >>
    /\ LifeFrame

\* discover_window returns: None (alert, continue) or a window
LifeDiscover ==
    /\ life.pc = "discover" /\ life.calls < MaxCalls
    /\ \/ life' = [life EXCEPT !.pc = "top", !.calls = @ + 1,
                               !.window = NoWindow,
                               !.failed = @ \cup {life.next_start},
                               !.alerts = @ + 1, !.sentBefore = life.sent,
                               !.steps = << >>, !.writes = 0,
                               !.last = "discover_none"]
       \/ \E skew \in Skews :
             life' = [life EXCEPT !.pc = StepAfter("discover"), !.calls = @ + 1,
                                  !.window = DiscoverWindow(life.next_start, skew,
                                                            life.calls + 1),
                                  !.in_progress = @ \cup {life.calls + 1},
                                  !.steps = << "discover" >>, !.writes = 0,
                                  !.last = "discover_some"]
    /\ UNCHANGED << now, spot, books >>
    /\ UNCHANGED << priceDirty, bookDirty >>
    /\ LifeFrame

\* token_sub_tx.send([yes_token, no_token])
LifeSubscribe ==
    /\ life.pc = "subscribe"
    /\ life' = [life EXCEPT !.pc = StepAfter("subscribe"),
                            !.sent = Append(@, life.window.id),
                            !.steps = Append(@, "subscribe"),
                            !.last = "subscribe"]
    /\ UNCHANGED << now, spot, books >>
    /\ UNCHANGED << priceDirty, bookDirty >>
    /\ LifeFrame

\* the book warm-up ends: yes_token has a book, or the deadline has passed
LifeWarmup ==
    /\ life.pc = "warmup"
    /\ life' = [life EXCEPT !.pc = StepAfter("warmup"),
                            !.steps = Append(@, "warmup"), !.last = "warmup"]
    /\ UNCHANGED << now, spot, books >>
    /\ UNCHANGED << priceDirty, bookDirty >>
    /\ LifeFrame

\* the sleep until open_time returns (at once when open_time has passed)
LifeWaitOpen ==
    /\ life.pc = "wait_open" /\ now >= life.window.open_time
    /\ life' = [life EXCEPT !.pc = StepAfter("wait_open"),
                            !.steps = Append(@, "wait_open"), !.last = "wait_open"]
    /\ UNCHANGED << now, spot, books >>
    /\ UNCHANGED << priceDirty, bookDirty >>
    /\ LifeFrame

\* open-price capture: skip the window when there is no spot
LifeCapture ==
    /\ life.pc = "capture"
    /\ IF spot <= 0
       THEN /\ life' = [life EXCEPT !.pc = "top",
                                    !.in_progress = @ \ {life.window.id},
                                    !.skipped = @ \cup {life.window.window_start},
                                    !.last = "skip"]
            /\ UNCHANGED << priceDirty, bookDirty >>
       ELSE /\ life' = [life EXCEPT !.pc = StepAfter("capture"),
                                    !.window.open_price = spot,
                                    !.writes = @ + 1,
                                    !.steps = Append(@, "capture"),
                                    !.last = "capture"]
            \* price_rx.clone(), book_rx.clone(): the lifecycle never marked
            \* a version of price_rx or book_rx as seen, so each clone holds
            \* an unseen version once its hub has published anything
            /\ priceDirty' = TRUE
            /\ bookDirty' = (books # << >>)
    /\ UNCHANGED << now, spot, books >>
    /\ LifeFrame

\* head of the monitor loop: is_expired
LifeMonitor ==
    /\ life.pc = "monitor"
    /\ life' = [life EXCEPT
                  !.pc = IF IsExpired(life.window, now) THEN StepAfter("monitor")
                         ELSE "select",
                  !.steps = IF @[Len(@)] = "monitor" THEN @ ELSE Append(@, "monitor"),
                  !.last = "monitor"]
    /\ UNCHANGED << now, spot, books >>
    /\ UNCHANGED << priceDirty, bookDirty >>
    /\ LifeFrame

\* select!: price_watch.changed() or book_watch.changed() completes and
\* marks its version seen; the evaluator is called on the window
LifeEvaluate ==
    /\ life.pc = "select"
    /\ \/ priceDirty /\ priceDirty' = FALSE /\ UNCHANGED bookDirty
       \/ bookDirty /\ bookDirty' = FALSE /\ UNCHANGED priceDirty
    /\ life' = [life EXCEPT !.pc = "monitor", !.last = "evaluate"]
    /\ UNCHANGED << now, spot, books >>
    /\ LifeFrame

\* retire: window-close alert, published status cleared
LifeRetire ==
    /\ life.pc = "retire"
    /\ life' = [life EXCEPT !.pc = StepAfter("retire"),
                            !.in_progress = @ \ {life.window.id},
                            !.prev = life.window,
                            !.steps = Append(@, "retire"), !.last = "retire"]
    /\ UNCHANGED << now, spot, books >>
    /\ priceDirty' = FALSE /\ bookDirty' = FALSE
    /\ LifeFrame

NextLife ==
    \/ LifeTick \/ LifeSpot \/ LifePause \/ LifeBook
    \/ LifePauseGate \/ LifeSchedule \/ LifeWake \/ LifeDiscover
    \/ LifeSubscribe \/ LifeWarmup \/ LifeWaitOpen \/ LifeCapture
    \/ LifeMonitor \/ LifeEvaluate \/ LifeRetire

SpecLife == InitLife /\ [][NextLife]_vars

IsPrefix(a, b) == Len(a) <= Len(b) /\ a = SubSeq(b, 1, Len(a))

\* C12: the steps of a window happen in the order discover, subscribe,
\* warm-up, open wait, open-price capture, monitor, retire; the evaluator is
\* called only after open_price was captured; open_price is written once per
\* window; and at most one window is in progress.
C12_LifecycleOrder ==
    /\ IsPrefix(life.steps, LifecycleOrder)
    /\ life.writes <= 1
    /\ life.last = "evaluate" => (life.writes = 1 /\ life.window.open_price > 0)
    /\ life.last = "retire" => (life.steps = LifecycleOrder /\ life.writes = 1)
    /\ Cardinality(life.in_progress) <= 1

\* a window was evaluated and retired
C12_Witness ==
    /\ life.last = "retire" /\ life.steps = LifecycleOrder
    /\ life.window.open_price > 0

\* C17: a discovery that returns None raises the alert, sends no
\* subscription and runs no evaluation for the window, and discovery is
\* never attempted again for a window_start that has failed.
C17_FailedWindowSkipped ==
    /\ life.last = "discover_none" =>
          /\ life.alerts > 0 /\ life.sent = life.sentBefore
          /\ life.pc = "top" /\ life.window = NoWindow
    /\ life.pc = "discover" => life.next_start \notin life.failed

-----------------------------------------------------------------------------
(* markets/book.rs run_loop: the book hub (specification SpecHub)          *)

\* the hub opens at most MaxConns connections
MaxConns == 3

\* token ids the lifecycles can send
HubTokens == {"t1", "t2", "t3"}
\* the token lists sent on token_sub_tx
TokenLists == {{"t1", "t2"}, {"t2", "t3"}, {"t2"}}

\* the filter that keeps every token of the list
NewTokensUnfiltered(tokens, subscribed) == tokens

\* tokens.into_iter().filter(|t| !subscribed_tokens.contains(t))
NewTokens(tokens, subscribed) == tokens \ subscribed

NoHubOp ==
    [ op |-> "none", tokens |-> {}, frame |-> {}, sent |-> FALSE, ok |-> FALSE,
      subsBefore |-> {}, framesBefore |-> << >> ]

HubStart ==
    [ pc |-> "connect", subscribed_tokens |-> {}, conn |-> 0,
      \* history of the current connection
      frames |-> << >>, resub |-> "none", handled |-> FALSE,
      \* history of the hub
      everSent |-> {}, last |-> NoHubOp ]

InitHub ==
    /\ now = 0
    /\ today = 0
    /\ spot = 8000
    /\ open_price = 0
    /\ books = << >>
    /\ priceDirty = FALSE
    /\ bookDirty = FALSE
    /\ pc = "idle"
    /\ open_divergences = << >>
    /\ divRisk = NewRisk(today)
    /\ risk = NewRisk(today)
    /\ out = Quiet
    /\ hist = [runPass |-> FALSE, sides |-> {}, epSignal |-> FALSE, epMaxEdge |-> 0]
    /\ rout = NoCall
    /\ tripped = FALSE
    /\ hub = HubStart
    /\ life = << >> /\ agg = << >> /\ exec = << >> /\ redeem = << >>
    /\ stats = << >>
    /\ AuxOff

HubFrame ==
    UNCHANGED << now, today, spot, priceDirty, pc, open_price, open_divergences,
                 divRisk, risk, out, hist, rout, tripped, life, agg, exec, redeem,
                 stats,
                 tasks, boot, calc, chan >>

\* tokens the venue streams on the current connection
Streamed == UNION {hub.frames[i] : i \in DOMAIN hub.frames}

\* connect_ws: a new connection, or an error and a 2 s sleep
HubConnect ==
    /\ hub.pc = "connect"
    /\ \/ /\ hub.conn < MaxConns
          /\ hub' = [hub EXCEPT !.pc = "resub", !.conn = @ + 1, !.frames = << >>,
                                !.resub = "none", !.handled = FALSE,
                                !.last = [NoHubOp EXCEPT !.op = "connect", !.ok = TRUE]]
       \/ hub' = [hub EXCEPT !.last = [NoHubOp EXCEPT !.op = "connect"]]
    /\ UNCHANGED << books, bookDirty >>
    /\ HubFrame

\* on a new connection: resubscribe subscribed_tokens when not empty; the
\* loop is entered whether the send succeeded or not
HubResubscribe ==
    /\ hub.pc = "resub"
    /\ IF hub.subscribed_tokens = {}
       THEN hub' = [hub EXCEPT !.pc = "select",
                               !.last = [NoHubOp EXCEPT !.op = "resubscribe"]]
       ELSE \/ hub' = [hub EXCEPT !.pc = "select", !.resub = "sent",
                                  !.frames = Append(@, hub.subscribed_tokens),
                                  !.last = [NoHubOp EXCEPT !.op = "resubscribe",
                                              !.frame = hub.subscribed_tokens,
                                              !.sent = TRUE, !.ok = TRUE]]
            \/ hub' = [hub EXCEPT !.pc = "select", !.resub = "failed",
                                  !.last = [NoHubOp EXCEPT !.op = "resubscribe",
                                              !.frame = hub.subscribed_tokens]]
    /\ UNCHANGED << books, bookDirty >>
    /\ HubFrame

\* read.next() yields a book message of a streamed token
HubMessage ==
    /\ hub.pc = "select"
    /\ \E tok \in Streamed :
          books' = [k \in DOMAIN books \cup {tok} |->
                       IF k = tok THEN ParseBookUpdate(4800, 5200) ELSE books[k]]
    /\ bookDirty' = TRUE
    /\ hub' = [hub EXCEPT !.handled = TRUE,
                          !.last = [NoHubOp EXCEPT !.op = "message", !.ok = TRUE]]
    /\ HubFrame

\* read.next() yields an error or the end of the stream
HubReadError ==
    /\ hub.pc = "select"
    /\ hub' = [hub EXCEPT !.pc = "backoff",
                          !.last = [NoHubOp EXCEPT !.op = "read_error"]]
    /\ UNCHANGED << books, bookDirty >>
    /\ HubFrame

\* token_rx.recv() yields a token list
HubRecvList ==
    /\ hub.pc = "select"
    /\ \E tokens \in TokenLists :
          LET new == NewTokens(tokens, hub.subscribed_tokens)
              op  == [NoHubOp EXCEPT !.op = "list", !.tokens = tokens,
                                     !.subsBefore = hub.subscribed_tokens,
                                     !.framesBefore = hub.frames]
          IN  IF new = {}
              THEN hub' = [hub EXCEPT !.handled = TRUE,
                                      !.last = [op EXCEPT !.ok = TRUE]]
              ELSE \/ hub' = [hub EXCEPT !.handled = TRUE,
                                         !.frames = Append(@, new),
                                         !.subscribed_tokens = @ \cup new,
                                         !.everSent = @ \cup new,
                                         !.last = [op EXCEPT !.frame = new,
                                                     !.sent = TRUE, !.ok = TRUE]]
                   \/ hub' = [hub EXCEPT !.handled = TRUE, !.pc = "backoff",
                                         !.last = [op EXCEPT !.frame = new]]
    /\ UNCHANGED << books, bookDirty >>
    /\ HubFrame

\* ping_task.abort(), the 1 s sleep, and back to connect_ws
HubBackoff ==
    /\ hub.pc = "backoff"
    /\ hub' = [hub EXCEPT !.pc = "connect",
                          !.last = [NoHubOp EXCEPT !.op = "backoff", !.ok = TRUE]]
    /\ UNCHANGED << books, bookDirty >>
    /\ HubFrame

NextHub ==
    \/ HubConnect \/ HubResubscribe \/ HubMessage \/ HubReadError
    \/ HubRecvList \/ HubBackoff

SpecHub == InitHub /\ [][NextHub]_vars

\* C13: on a token list the frame sent holds exactly the tokens of the list
\* that are not subscribed yet; with no new token nothing is sent and nothing
\* changes; tokens enter subscribed_tokens only once their frame was sent.
C13_SubscribeNewOnly ==
    /\ hub.last.op = "list" =>
          LET expected == hub.last.tokens \ hub.last.subsBefore
          IN  /\ hub.last.frame = expected
              /\ expected = {} =>
                    /\ ~hub.last.sent
                    /\ hub.frames = hub.last.framesBefore
                    /\ hub.subscribed_tokens = hub.last.subsBefore
                    /\ hub.pc = "select"
              /\ expected # {} =>
                    /\ hub.frames = IF hub.last.sent
                                    THEN Append(hub.last.framesBefore, expected)
                                    ELSE hub.last.framesBefore
                    /\ hub.subscribed_tokens =
                          IF hub.last.sent THEN hub.last.subsBefore \cup expected
                          ELSE hub.last.subsBefore
    /\ hub.subscribed_tokens \subseteq hub.everSent

\* a list that is partly subscribed already was handled and its frame sent
C13_Witness ==
    /\ hub.last.op = "list" /\ hub.last.sent
    /\ hub.last.tokens \cap hub.last.subsBefore # {}
    /\ hub.last.frame # {}

\* C14: on a connection opened with subscribed_tokens not empty, a frame
\* holding all of subscribed_tokens is sent first: before any book message
\* of the connection is processed and before any token list is handled.
C14_ResubscribeFullSetFirst ==
    /\ (hub.last.op = "resubscribe" /\ hub.subscribed_tokens # {}) =>
          /\ hub.frames = << hub.subscribed_tokens >>
          /\ ~hub.handled
    /\ hub.handled => Streamed = hub.subscribed_tokens

\* C15: a read error or close, a failed subscribe send and a failed
\* resubscribe send all end the connection (backoff, reconnect,
\* resubscribe); the hub never runs on a connection whose subscribe frame
\* failed to send.
C15_SendFailureReconnects ==
    /\ hub.last.op = "read_error" => hub.pc = "backoff"
    /\ (hub.last.op \in {"list", "resubscribe"} /\ hub.last.frame # {} /\ ~hub.last.sent)
          => hub.pc = "backoff"
    /\ hub.pc = "select" => hub.resub # "failed"

-----------------------------------------------------------------------------
(* feeds/aggregator.rs spawn: the price aggregator (specification SpecAgg). *)
(* timestamp_ms and now_ms are in units of 1000 ms.                        *)

\* [strategy] stale_price_secs
StaleSecs == 2
\* the clock of the aggregator runs from 0 to MaxAggTime
MaxAggTime == 4

\* the assets binance.rs names its ticks after (parse_combined_trade)
Assets == {"btc", "eth"}
\* the sources of the PriceTicks, besides "deribit_iv": binance's ticks
\* carry the asset of the symbol they trade
Sources == Assets
\* the prices quoted for each source
TickPrices(src) == IF src = "btc" THEN {8000, 8010} ELSE {300}
\* implied volatilities deribit reports, pips
Ivs == {5000, 6000}

\* the entries that pass the filter: now_ms.saturating_sub(timestamp_ms) < stale_ms
ActiveFeeds(feeds, t) ==
    {src \in DOMAIN feeds : Max(t - feeds[src].timestamp_ms, 0) < StaleSecs}

\* active_prices after sort_unstable_by
RECURSIVE SortedPrices(_, _)
SortedPrices(feeds, srcs) ==
    IF srcs = {} THEN << >>
    ELSE LET lo == CHOOSE a \in srcs : \A b \in srcs : feeds[a].price <= feeds[b].price
         IN  << feeds[lo].price >> \o SortedPrices(feeds, srcs \ {lo})

\* the median of a sorted, non-empty list
Median(active_prices) ==
    LET n == Len(active_prices)
    IN  IF n % 2 = 0
        THEN (active_prices[n \div 2] + active_prices[(n \div 2) + 1]) \div 2
        ELSE active_prices[(n \div 2) + 1]

NoAggOp ==
    [ op |-> "none", source |-> "", timestamp_ms |-> 0, broadcast |-> FALSE,
      feedsBefore |-> << >>, used |-> {} ]

AggStart ==
    [ feeds |-> << >>, current_iv |-> 0,
      published |-> [spot_price |-> 0, implied_vol |-> 0, feed_count |-> 0,
                     timestamp_ms |-> 0],
      last |-> NoAggOp ]

InitAgg ==
    /\ now = 0
    /\ today = 0
    /\ spot = 0
    /\ open_price = 0
    /\ books = << >>
    /\ priceDirty = FALSE
    /\ bookDirty = FALSE
    /\ pc = "idle"
    /\ open_divergences = << >>
    /\ divRisk = NewRisk(today)
    /\ risk = NewRisk(today)
    /\ out = Quiet
    /\ hist = [runPass |-> FALSE, sides |-> {}, epSignal |-> FALSE, epMaxEdge |-> 0]
    /\ rout = NoCall
    /\ tripped = FALSE
    /\ agg = AggStart
    /\ life = << >> /\ hub = << >> /\ exec = << >> /\ redeem = << >>
    /\ stats = << >>
    /\ AuxOff

AggFrame ==
    UNCHANGED << today, books, bookDirty, pc, open_price, open_divergences,
                 divRisk, risk, out, hist, rout, tripped, life, hub, exec, redeem,
                 stats,
                 tasks, boot, calc, chan >>

\* the wall clock advances
AggTick ==
    /\ now < MaxAggTime
    /\ now' = now + 1
    /\ agg' = [agg EXCEPT !.last = NoAggOp]
    /\ UNCHANGED << spot, priceDirty >>
    /\ AggFrame

\* a "deribit_iv" tick: current_iv is stored, nothing is published
AggIvTick ==
    /\ \E iv \in Ivs : agg' = [agg EXCEPT !.current_iv = iv,
                                          !.last = [NoAggOp EXCEPT !.op = "iv"]]
    /\ UNCHANGED << now, spot, priceDirty >>
    /\ AggFrame

\* a price tick of an exchange feed: stored, then the median of the active
\* entries is published
AggPriceTick ==
    /\ \E src \in Sources, ts \in 0 .. now : \E price \in TickPrices(src) :
          LET feeds  == [k \in DOMAIN agg.feeds \cup {src} |->
                            IF k = src THEN [price |-> price, timestamp_ms |-> ts]
                            ELSE agg.feeds[k]]
              active == ActiveFeeds(feeds, now)
              op     == [NoAggOp EXCEPT !.op = "tick", !.source = src,
                                        !.timestamp_ms = ts,
                                        !.feedsBefore = agg.feeds]
          IN  IF active = {}
              THEN /\ agg' = [agg EXCEPT !.feeds = feeds, !.last = op]
                   /\ UNCHANGED << spot, priceDirty >>
              ELSE LET median == Median(SortedPrices(feeds, active))
                   IN  /\ agg' = [agg EXCEPT
                                    !.feeds = feeds,
                                    !.published = [spot_price |-> median,
                                                   implied_vol |-> agg.current_iv,
                                                   feed_count |-> Cardinality(active),
                                                   timestamp_ms |-> now],
                                    !.last = [op EXCEPT !.broadcast = TRUE,
                                                        !.used = active]]
                       /\ spot' = median
                       /\ priceDirty' = TRUE
    /\ UNCHANGED now
    /\ AggFrame

NextAgg == AggTick \/ AggIvTick \/ AggPriceTick

SpecAgg == InitAgg /\ [][NextAgg]_vars

\* C16: no published price comes from a tick older than stale_price_secs at
\* publish time, and a tick that old on arrival is dropped: no stored entry
\* changes and nothing is broadcast.
C16_StaleTicksDropped ==
    agg.last.op = "tick" =>
        /\ agg.last.broadcast =>
              \A src \in agg.last.used :
                  now - agg.feeds[src].timestamp_ms <= StaleSecs
        /\ now - agg.last.timestamp_ms > StaleSecs =>
              (agg.feeds = agg.last.feedsBefore /\ ~agg.last.broadcast)

-----------------------------------------------------------------------------
(* executor/mod.rs spawn and redemption.rs spawn_redemption_loop: the      *)
(* executor task and the redemption loop it starts (specification SpecExec) *)

\* the executor receives at most MaxSignals Signals
MaxSignals == 3
\* the redemption loop runs at most MaxCycles cycles
MaxCycles == 3

\* Signals that reach the event channel: two sound ones, one whose token_id
\* is not a number, one of size 0, one of price 0
ExecSignals ==
    { [condition_id |-> "c1", side |-> "BUY_YES", token_id |-> "7", price |-> 4200, size_usd |-> 100],
      [condition_id |-> "c2", side |-> "BUY_NO",  token_id |-> "7", price |-> 4200, size_usd |-> 100],
      [condition_id |-> "c1", side |-> "BUY_YES", token_id |-> "x", price |-> 4200, size_usd |-> 100],
      [condition_id |-> "c2", side |-> "BUY_YES", token_id |-> "7", price |-> 4200, size_usd |-> 0],
      [condition_id |-> "c1", side |-> "BUY_NO",  token_id |-> "7", price |-> 0,    size_usd |-> 100] }
NoSignal == [condition_id |-> ""]

\* the steps of execute_signal that depend on the order client
Faults == {"none", "build", "sign", "post"}

\* U256::from_str(&signal.token_id)
ParsesAsU256(token_id) == token_id = "7"

\* Decimal::round_dp: n / d rounded to the nearest integer, halves to even
RoundHalfEven(n, d) ==
    LET f == n \div d
        r == n % d
    IN  IF 2 * r > d THEN f + 1
        ELSE IF 2 * r < d THEN f
        ELSE IF f % 2 = 0 THEN f ELSE f + 1

\* Decimal::from_f64(size_usd / price).round_dp(2), in hundredths of a share
RoundedSize(sig) == RoundHalfEven(sig.size_usd * 10000, sig.price)

\* execute_signal: its result, the step it ended at, whether an order was posted
ExecuteSignal(sig, fault) ==
    IF ~ParsesAsU256(sig.token_id)
    THEN [result |-> "err", step |-> "token_id", posted |-> FALSE]
    ELSE IF sig.price = 0
    THEN [result |-> "err", step |-> "size", posted |-> FALSE]
    ELSE IF RoundedSize(sig) <= 0
    THEN [result |-> "ok", step |-> "zero_size", posted |-> FALSE]
    ELSE IF fault # "none"
    THEN [result |-> "err", step |-> fault, posted |-> FALSE]
    ELSE [result |-> "ok", step |-> "posted", posted |-> TRUE]

\* an executor that leaves the speculative increment in place
CompensateNot(open) == open

\* stats.open.saturating_sub(1)
Compensate(open) == IF open > 0 THEN open - 1 ELSE 0

\* the PendingPosition pushed for a Signal
PendingPosition(sig) ==
    [ condition_id |-> sig.condition_id, side |-> sig.side,
      entry_price |-> sig.price, size_usd |-> sig.size_usd ]

\* what one position meets in a cycle: the resolution query fails, returns
\* no outcome, or returns UP / DOWN, and then the redeem call succeeds or not
Outcomes ==
    { [query |-> "err", redeem |-> "none"], [query |-> "none", redeem |-> "none"],
      [query |-> "UP", redeem |-> "ok"], [query |-> "UP", redeem |-> "err"],
      [query |-> "DOWN", redeem |-> "ok"], [query |-> "DOWN", redeem |-> "err"] }

\* a tracker that also finalizes a position whose redeem call failed
RedeemedEvenOnError(o) == o.query \in {"UP", "DOWN"}

\* process_pending pushes a result and removes the position
Redeemed(o) == o.query \in {"UP", "DOWN"} /\ o.redeem = "ok"

\* a result that counts every UP resolution as a win, whatever the side
WonIfUp(pos, o) == o.query = "UP"

\* process_pending: won
Won(pos, o) ==
    \/ pos.side = "BUY_YES" /\ o.query = "UP"
    \/ pos.side = "BUY_NO" /\ o.query = "DOWN"

\* pnl of a redeemed position, cents
Pnl(pos, o) ==
    IF Won(pos, o) THEN (pos.size_usd * (10000 - pos.entry_price)) \div pos.entry_price
    ELSE 0 - pos.size_usd

\* track_position for every position waiting on the channel, in order
RECURSIVE TrackAll(_, _)
TrackAll(pending, queue) ==
    IF queue = << >> THEN pending
    ELSE LET pos == Head(queue)
         IN  TrackAll([k \in DOMAIN pending \cup {pos.condition_id} |->
                          IF k = pos.condition_id THEN pos ELSE pending[k]],
                      Tail(queue))

\* the stats after the results of a cycle
RECURSIVE Finalize(_, _, _, _)
Finalize(st, pending, outcomes, cids) ==
    IF cids = {} THEN st
    ELSE LET cid == CHOOSE c \in cids : TRUE
             pos == pending[cid]
             pnl == Pnl(pos, outcomes[cid])
             won == Won(pos, outcomes[cid])
         IN  Finalize([st EXCEPT !.open = IF @ > 0 THEN @ - 1 ELSE 0,
                                 !.total_pnl = @ + pnl,
                                 !.session_pnl = @ + pnl,
                                 !.daily_pnl = @ + pnl,
                                 !.wins = IF won THEN @ + 1 ELSE @,
                                 !.losses = IF won THEN @ ELSE @ + 1],
                      pending, outcomes, cids \ {cid})

\* the trade records written for the results of a cycle
RECURSIVE TradeRecords(_, _, _)
TradeRecords(pending, outcomes, cids) ==
    IF cids = {} THEN << >>
    ELSE LET cid == CHOOSE c \in cids : TRUE
         IN  << [ market |-> cid, side |-> pending[cid].side,
                  entry_price |-> pending[cid].entry_price,
                  pnl |-> Pnl(pending[cid], outcomes[cid]),
                  outcome |-> IF Won(pending[cid], outcomes[cid])
                              THEN "converged" ELSE "adverse" ] >>
             \o TradeRecords(pending, outcomes, cids \ {cid})

NoExecOp ==
    [ op |-> "none", result |-> "none", step |-> "none", posted |-> FALSE,
      signal |-> NoSignal ]

ExecStart ==
    [ pc |-> "recv", current |-> NoSignal, received |-> 0,
      redeem_queue |-> << >>, orders |-> << >>, positions |-> 0, cancels |-> 0,
      \* history of the Signal in hand
      openAtReceive |-> 0, finalizedSince |-> 0, pushed |-> 0, pushedBefore |-> 0,
      ordersBefore |-> << >>, last |-> NoExecOp ]

StatsStart ==
    [ open |-> 0, wins |-> 0, losses |-> 0,
      total_pnl |-> 0, session_pnl |-> 0, daily_pnl |-> 0 ]

NoCycle ==
    [ op |-> "none", outcomes |-> << >>, pendingBefore |-> << >>,
      statsBefore |-> StatsStart, tradesBefore |-> << >> ]

RedeemStart == [ pending |-> << >>, trades |-> << >>, cycles |-> 0, last |-> NoCycle ]

InitExec ==
    /\ now = 0
    /\ today = 0
    /\ spot = 8000
    /\ open_price = 0
    /\ books = << >>
    /\ priceDirty = FALSE
    /\ bookDirty = FALSE
    /\ pc = "idle"
    /\ open_divergences = << >>
    /\ divRisk = NewRisk(today)
    /\ risk = NewRisk(today)
    /\ out = Quiet
    /\ hist = [runPass |-> FALSE, sides |-> {}, epSignal |-> FALSE, epMaxEdge |-> 0]
    /\ rout = NoCall
    /\ tripped = FALSE
    /\ exec = ExecStart
    /\ redeem = RedeemStart
    /\ stats = StatsStart
    /\ life = << >> /\ hub = << >> /\ agg = << >>
    /\ AuxOff

ExecFrame ==
    UNCHANGED << now, today, spot, books, priceDirty, bookDirty, pc, open_price,
                 open_divergences, divRisk, risk, out, hist, rout, tripped,
                 life, hub, agg,
                 tasks, boot, calc, chan >>

\* an executor that runs execute_signal again on the Signal that failed
AfterSignalRetries(result) == IF result = "err" THEN "executing" ELSE "recv"

\* where the event loop goes once execute_signal has returned: to the next
\* event_rx.recv(), on Ok and on Err alike
AfterSignal(result) == "recv"

\* event_rx.recv() yields a Signal: stats.open += 1, execute_signal starts
ExecTake(sig) ==
    /\ exec' = [exec EXCEPT !.pc = "executing", !.current = sig,
                            !.received = @ + 1,
                            !.openAtReceive = stats.open,
                            !.finalizedSince = 0,
                            !.pushedBefore = exec.pushed,
                            !.ordersBefore = exec.orders,
                            !.last = [NoExecOp EXCEPT !.op = "receive", !.signal = sig]]
    /\ stats' = [stats EXCEPT !.open = @ + 1]
    /\ redeem' = [redeem EXCEPT !.last = NoCycle]

ExecReceive ==
    /\ exec.pc = "recv" /\ exec.received < MaxSignals
    /\ \E sig \in ExecSignals : ExecTake(sig)
    /\ ExecFrame

\* event_rx.recv() yields a Converged event: it is logged
ExecConverged ==
    /\ exec.pc = "recv" /\ exec.last.op # "converged"
    /\ exec' = [exec EXCEPT !.last = [NoExecOp EXCEPT !.op = "converged"]]
    /\ redeem' = [redeem EXCEPT !.last = NoCycle]
    /\ UNCHANGED stats
    /\ ExecFrame

\* execute_signal returns: on Err the increment is taken back, on Ok a
\* PendingPosition is sent to the redemption loop
ExecDone(fault) ==
    LET sig == exec.current
        r   == ExecuteSignal(sig, fault)
        to  == AfterSignal(r.result)
    IN  /\ exec' = [exec EXCEPT
                      !.pc = to,
                      !.current = IF to = "recv" THEN NoSignal ELSE sig,
                      !.orders = IF r.posted THEN Append(@, sig) ELSE @,
                      !.positions = IF r.posted THEN @ + 1 ELSE @,
                      !.cancels = IF r.posted THEN @ + 1 ELSE @,
                      !.redeem_queue = IF r.result = "ok"
                                       THEN Append(@, PendingPosition(sig)) ELSE @,
                      !.pushed = IF r.result = "ok" THEN @ + 1 ELSE @,
                      !.last = [ op |-> "signal", result |-> r.result,
                                 step |-> r.step, posted |-> r.posted,
                                 signal |-> sig ]]
        /\ stats' = IF r.result = "err"
                    THEN [stats EXCEPT !.open = Compensate(@)]
                    ELSE stats
        /\ redeem' = [redeem EXCEPT !.last = NoCycle]

\* the executor task completes the signal it is working on (mod.rs 88-123)
ExecFinish ==
    /\ exec.pc = "executing"
    /\ \E fault \in Faults : ExecDone(fault)
    /\ ExecFrame

\* one 30 s cycle of the redemption loop: the channel is drained into the
\* tracker, every tracked position is queried and, when resolved, redeemed;
\* the results are booked in the stats and written as trade records
RedeemCycle ==
    /\ redeem.cycles < MaxCycles
    /\ LET pending == TrackAll(redeem.pending, exec.redeem_queue)
       IN  \E outcomes \in [DOMAIN pending -> Outcomes] :
              LET done == {cid \in DOMAIN pending : Redeemed(outcomes[cid])}
              IN  /\ redeem' = [ pending |-> [cid \in DOMAIN pending \ done |-> pending[cid]],
                                 trades |-> redeem.trades
                                            \o TradeRecords(pending, outcomes, done),
                                 cycles |-> redeem.cycles + 1,
                                 last |-> [ op |-> "cycle", outcomes |-> outcomes,
                                            pendingBefore |-> pending,
                                            statsBefore |-> stats,
                                            tradesBefore |-> redeem.trades ] ]
                  /\ stats' = Finalize(stats, pending, outcomes, done)
                  /\ exec' = [exec EXCEPT
                                !.redeem_queue = << >>,
                                !.last = NoExecOp,
                                !.finalizedSince =
                                    IF exec.pc = "executing" THEN @ + Cardinality(done)
                                    ELSE @]
    /\ ExecFrame

NextExec == ExecReceive \/ ExecConverged \/ ExecFinish \/ RedeemCycle

SpecExec == InitExec /\ [][NextExec]_vars

\* stats.open, once execute_signal has returned, set against its value when
\* the Signal was received: the redemptions finalized meanwhile are not the
\* executor's
OpenAsBeforeSignal ==
    stats.open = Max(exec.openAtReceive - exec.finalizedSince, 0)

C19_PushOnlyPostedOrders ==
    exec.last.op = "signal" =>
        /\ exec.pushed = exec.pushedBefore + (IF exec.last.posted THEN 1 ELSE 0)
        /\ exec.last.step = "zero_size" =>
              /\ exec.orders = exec.ordersBefore
              /\ exec.pushed = exec.pushedBefore
              /\ OpenAsBeforeSignal

-----------------------------------------------------------------------------
(* Mutexes and suspension points.  Every task that takes a mutex, as the   *)
(* sequence of its suspension points (.await) and of the places where a    *)
(* guard is created and dropped.  std::sync::Mutex::lock blocks the thread *)
(* and is no suspension point; tokio::sync::Mutex::lock().await is one,    *)
(* and the task holds the guard from the moment it resumes.                *)

Mutexes == { "live_stats", "window_states", "last_alert", "ws_write" }

Await(what)     == [ k |-> "await", l |-> "none", what |-> what ]
Lock(l)         == [ k |-> "lock", l |-> l, what |-> "lock" ]
LockAwait(l)    == [ k |-> "lock_await", l |-> l, what |-> "lock" ]
Drop(l)         == [ k |-> "drop", l |-> l, what |-> "drop" ]

\* markets/book.rs run_loop, the ping task of one connection
PingTask ==
    << Await("sleep"), LockAwait("ws_write"), Await("send"), Drop("ws_write") >>

\* markets/book.rs run_loop calling subscribe (on reconnect, on a token list)
SubscribeTask ==
    << Await("recv"), LockAwait("ws_write"), Await("send"), Drop("ws_write") >>

\* main.rs main, the status writer
StatusTask ==
    << Await("sleep"), Lock("window_states"), Drop("window_states"),
       Lock("live_stats"), Drop("live_stats") >>

\* main.rs run_asset_loop: update_window_state and data::alert between awaits
LifecycleTask ==
    << Await("sleep"), Lock("window_states"), Drop("window_states"),
       Lock("last_alert"), Drop("last_alert") >>

\* executor/mod.rs spawn, the event loop, on an order that fails
ExecutorTask ==
    << Await("recv"), Lock("live_stats"), Drop("live_stats"),
       Await("execute_signal"), Lock("live_stats"), Drop("live_stats") >>

\* executor/mod.rs spawn, the balance poller
BalanceTask ==
    << Await("query_balance"), Lock("live_stats"), Drop("live_stats"),
       Await("sleep") >>

\* redemption.rs spawn: one redeemed position, then its alert
RedemptionTask ==
    << Await("process_pending"), Lock("live_stats"), Drop("live_stats"),
       Lock("last_alert"), Drop("last_alert"), Await("sleep") >>

TaskNames ==
    { "ping", "subscribe", "status", "lifecycle", "executor", "balance",
      "redemption" }

Program(t) ==
    CASE t = "ping"       -> PingTask
      [] t = "subscribe"  -> SubscribeTask
      [] t = "status"     -> StatusTask
      [] t = "lifecycle"  -> LifecycleTask
      [] t = "executor"   -> ExecutorTask
      [] t = "balance"    -> BalanceTask
      [] t = "redemption" -> RedemptionTask

\* the step a task is at: suspended there if it is an await
StepOf(t) == Program(t)[tasks[t].at]

NextAt(t) == IF tasks[t].at = Len(Program(t)) THEN 1 ELSE tasks[t].at + 1

Holder(l) == { t \in TaskNames : l \in tasks[t].held }

Suspended(t) == StepOf(t).k \in { "await", "lock_await" }

InitLocks ==
    /\ now = 0
    /\ today = 0
    /\ spot = 8000
    /\ open_price = 0
    /\ books = << >>
    /\ priceDirty = FALSE
    /\ bookDirty = FALSE
    /\ pc = "idle"
    /\ open_divergences = << >>
    /\ divRisk = NewRisk(today)
    /\ risk = NewRisk(today)
    /\ out = Quiet
    /\ hist = [runPass |-> FALSE, sides |-> {}, epSignal |-> FALSE, epMaxEdge |-> 0]
    /\ rout = NoCall
    /\ tripped = FALSE
    /\ life = << >> /\ hub = << >> /\ agg = << >>
    /\ exec = << >> /\ redeem = << >> /\ stats = << >>
    /\ tasks = [ t \in TaskNames |-> [ at |-> 1, held |-> {} ] ]
    /\ boot = << >> /\ calc = << >> /\ chan = << >>

LocksFrame ==
    UNCHANGED << now, today, spot, books, priceDirty, bookDirty, pc, open_price,
                 open_divergences, divRisk, risk, out, hist, rout, tripped,
                 life, hub, agg, exec, redeem, stats, boot, calc, chan >>

\* the future a task is suspended on completes and the task goes on
Resume ==
    /\ \E t \in TaskNames :
          /\ StepOf(t).k = "await"
          /\ tasks' = [tasks EXCEPT ![t].at = NextAt(t)]
    /\ LocksFrame

\* tokio Mutex: lock().await completes once the mutex is free
AcquireAsync ==
    /\ \E t \in TaskNames :
          /\ StepOf(t).k = "lock_await"
          /\ Holder(StepOf(t).l) = {}
          /\ tasks' = [tasks EXCEPT ![t].at = NextAt(t),
                                    ![t].held = @ \cup { StepOf(t).l }]
    /\ LocksFrame

\* std Mutex: lock().unwrap() returns once the mutex is free
AcquireSync ==
    /\ \E t \in TaskNames :
          /\ StepOf(t).k = "lock"
          /\ Holder(StepOf(t).l) = {}
          /\ tasks' = [tasks EXCEPT ![t].at = NextAt(t),
                                    ![t].held = @ \cup { StepOf(t).l }]
    /\ LocksFrame

\* the guard goes out of scope
Release ==
    /\ \E t \in TaskNames :
          /\ StepOf(t).k = "drop"
          /\ tasks' = [tasks EXCEPT ![t].at = NextAt(t),
                                    ![t].held = @ \ { StepOf(t).l }]
    /\ LocksFrame

NextLocks == Resume \/ AcquireAsync \/ AcquireSync \/ Release

SpecLocks == InitLocks /\ [][NextLocks]_vars

\* C21: no task holds a lock at a suspension point: a task that is at an
\* await holds none of the SharedLiveStats mutex, the window-status mutex,
\* the alert-table mutex and the order-book write-half mutex.
C21_NoLockAtAwait ==
    \A t \in TaskNames : Suspended(t) => tasks[t].held = {}

-----------------------------------------------------------------------------
(* Startup: main.rs main up to the ctrl_c wait, with executor::spawn       *)
(* inlined.  The environment (config file, POLYMARKET_PRIVATE_KEY, the     *)
(* CLOB's answer) is fixed by Init.  A spawned task starts running on a    *)
(* worker of the runtime at any moment after its tokio::spawn, until the   *)
(* process exits.                                                          *)

\* the largest number of configured assets (cfg.discovery.assets)
MaxAssets == 2

ConfigFiles == { "ok", "missing", "unparseable" }

BootEnvs ==
    [ config : ConfigFiles, key : { "set", "missing" },
      signer : { "ok", "bad" }, auth : { "ok", "fail" },
      dry_run : BOOLEAN, assets : 1 .. MaxAssets ]

\* Config::load: read_to_string, then toml::from_str
ConfigLoad(file) ==
    CASE file = "missing"     -> "reading config"
      [] file = "unparseable" -> "parsing config TOML"
      [] OTHER                -> "none"

\* feeds::spawn_all: the aggregator, then the five exchange feeds
FeedTasks == { "aggregator", "binance", "coinbase", "kraken", "okx", "deribit" }

\* the run_asset_loop task of the i-th configured asset
Lifecycle(i) ==
    CASE i = 1 -> "lifecycle_1" [] i = 2 -> "lifecycle_2" [] OTHER -> "lifecycle_n"

BootStart(env) ==
    [ pc |-> "load", env |-> env, spawned |-> {}, started |-> {},
      next_asset |-> 1, failure |-> "none", spawnedAtFailure |-> {},
      startedAtFailure |-> {} ]

InitBoot ==
    /\ now = 0
    /\ today = 0
    /\ spot = 8000
    /\ open_price = 0
    /\ books = << >>
    /\ priceDirty = FALSE
    /\ bookDirty = FALSE
    /\ pc = "idle"
    /\ open_divergences = << >>
    /\ divRisk = NewRisk(today)
    /\ risk = NewRisk(today)
    /\ out = Quiet
    /\ hist = [runPass |-> FALSE, sides |-> {}, epSignal |-> FALSE, epMaxEdge |-> 0]
    /\ rout = NoCall
    /\ tripped = FALSE
    /\ life = << >> /\ hub = << >> /\ agg = << >>
    /\ exec = << >> /\ redeem = << >> /\ stats = << >>
    /\ \E env \in BootEnvs : boot = BootStart(env)
    /\ tasks = << >> /\ calc = << >> /\ chan = << >>

BootFrame ==
    UNCHANGED << now, today, spot, books, priceDirty, bookDirty, pc, open_price,
                 open_divergences, divRisk, risk, out, hist, rout, tripped,
                 life, hub, agg, exec, redeem, stats, tasks, calc, chan >>

\* `?` on an Err: main returns it and the process exits
Fail(b, why) ==
    [b EXCEPT !.pc = "exited", !.failure = why,
              !.spawnedAtFailure = b.spawned, !.startedAtFailure = b.started]

\* the step main takes after the executor is up, and what it does there
AfterAssets(b) == IF b.env.dry_run THEN "dry_run_logger" ELSE "private_key"

\* let cfg = Config::load(&cli.config)?;
BootLoad ==
    /\ boot.pc = "load"
    /\ boot' = IF ConfigLoad(boot.env.config) # "none"
                 THEN Fail(boot, ConfigLoad(boot.env.config))
                 ELSE [boot EXCEPT !.pc = "feeds"]
    /\ BootFrame

\* feeds::spawn_all(price_tx, &cfg);
BootFeeds ==
    /\ boot.pc = "feeds"
    /\ boot' = [boot EXCEPT !.pc = "hub", !.spawned = @ \cup FeedTasks]
    /\ BootFrame

\* markets::book::spawn();
BootHub ==
    /\ boot.pc = "hub"
    /\ boot' = [boot EXCEPT !.pc = "assets", !.spawned = @ \cup { "book_hub" }]
    /\ BootFrame

\* for asset in &cfg.discovery.assets { tokio::spawn(run_asset_loop(..)) }
BootAsset ==
    /\ boot.pc = "assets"
    /\ boot' = [boot EXCEPT
                  !.spawned = @ \cup { Lifecycle(boot.next_asset) },
                  !.next_asset = @ + 1,
                  !.pc = IF boot.next_asset = boot.env.assets
                           THEN AfterAssets(boot) ELSE "assets"]
    /\ BootFrame

\* logging::spawn_dry_run_logger(event_rx);
BootDryRun ==
    /\ boot.pc = "dry_run_logger"
    /\ boot' = [boot EXCEPT !.pc = "status",
                            !.spawned = @ \cup { "dry_run_logger" }]
    /\ BootFrame

\* executor::spawn: let private_key = cfg.private_key()?;
BootPrivateKey ==
    /\ boot.pc = "private_key"
    /\ boot' = IF boot.env.key = "missing"
                 THEN Fail(boot, "POLYMARKET_PRIVATE_KEY env var not set")
                 ELSE [boot EXCEPT !.pc = "signer"]
    /\ BootFrame

\* executor::spawn: LocalSigner::from_str(&private_key).context(..)?
BootSigner ==
    /\ boot.pc = "signer"
    /\ boot' = IF boot.env.signer = "bad"
                 THEN Fail(boot, "parsing private key")
                 ELSE [boot EXCEPT !.pc = "authenticate"]
    /\ BootFrame

\* executor::spawn: Client::new(..)?...authenticate().await.context(..)?
BootAuthenticate ==
    /\ boot.pc = "authenticate"
    /\ boot' = IF boot.env.auth = "fail"
                 THEN Fail(boot, "CLOB authentication")
                 ELSE [boot EXCEPT !.pc = "executor"]
    /\ BootFrame

\* executor::spawn: redemption loop, balance poller, event loop
BootExecutor ==
    /\ boot.pc = "executor"
    /\ boot' = [boot EXCEPT !.pc = "status",
                  !.spawned = @ \cup { "redemption", "balance", "executor" }]
    /\ BootFrame

\* main: the status writer, then ctrl_c().await
BootStatus ==
    /\ boot.pc = "status"
    /\ boot' = [boot EXCEPT !.pc = "running",
                            !.spawned = @ \cup { "status_writer" }]
    /\ BootFrame

\* a worker of the runtime polls a spawned task for the first time
TaskStart ==
    /\ boot.pc # "exited"
    /\ \E t \in boot.spawned \ boot.started :
          boot' = [boot EXCEPT !.started = @ \cup { t }]
    /\ BootFrame

NextBoot ==
    \/ BootLoad \/ BootFeeds \/ BootHub \/ BootAsset \/ BootDryRun
    \/ BootPrivateKey \/ BootSigner \/ BootAuthenticate \/ BootExecutor
    \/ BootStatus \/ TaskStart

SpecBoot == InitBoot /\ [][NextBoot]_vars

\* C22: when startup fails (config file missing or unparseable, private key
\* missing, signer or CLOB authentication failure) the process exits before
\* any task has been spawned: no feed, aggregator, book hub, asset lifecycle
\* or status-writer task has been spawned or has started at the failure.
C22_FailBeforeAnySpawn ==
    boot.failure # "none" =>
        /\ boot.pc = "exited"
        /\ boot.spawnedAtFailure = {}
        /\ boot.startedAtFailure = {}

-----------------------------------------------------------------------------
(* fair_yes as a function of f64 arguments.  An f64 is a number or NaN;    *)
(* every comparison with a NaN is false, and arithmetic and f64::clamp     *)
(* give NaN when an operand or the receiver is NaN.                        *)

\* time_remaining_frac is given in units of 1 / TrDen
TrDen == 4

NaN == [ nan |-> TRUE, v |-> 0 ]
Num(v) == [ nan |-> FALSE, v |-> v ]

\* x <= 0.0 and x < 0.0 on an f64
LeZero(x) == ~x.nan /\ x.v <= 0
LtZero(x) == ~x.nan /\ x.v < 0

\* fair_yes(spot_now, open_price, time_remaining_frac), result in pips
\* (open stands for open_price)
fair_yes(spot_now, open, time_remaining_frac) ==
    IF LeZero(open) \/ LeZero(spot_now) THEN Num(5000)
    ELSE IF LtZero(time_remaining_frac) THEN Num(5000)
    ELSE IF spot_now.nan \/ open.nan \/ time_remaining_frac.nan THEN NaN
    ELSE Num(FairYes(spot_now.v, open.v, time_remaining_frac.v, TrDen))

\* the arguments tried: prices in dollars, fractions in units of 1 / TrDen
FairPrices == { NaN } \cup { Num(v) : v \in { 0 - 8000, 0, 7900, 7990, 8000, 8010, 8400 } }
FairFracs == { NaN } \cup { Num(v) : v \in (0 - 1) .. (TrDen + 1) }

NoCalc == [ op |-> "none" ]

InitFair ==
    /\ now = 0
    /\ today = 0
    /\ spot = 8000
    /\ open_price = 0
    /\ books = << >>
    /\ priceDirty = FALSE
    /\ bookDirty = FALSE
    /\ pc = "idle"
    /\ open_divergences = << >>
    /\ divRisk = NewRisk(today)
    /\ risk = NewRisk(today)
    /\ out = Quiet
    /\ hist = [runPass |-> FALSE, sides |-> {}, epSignal |-> FALSE, epMaxEdge |-> 0]
    /\ rout = NoCall
    /\ tripped = FALSE
    /\ life = << >> /\ hub = << >> /\ agg = << >>
    /\ exec = << >> /\ redeem = << >> /\ stats = << >>
    /\ tasks = << >> /\ boot = << >> /\ chan = << >>
    /\ calc = NoCalc

CalcFrame ==
    UNCHANGED << now, today, spot, books, priceDirty, bookDirty, pc, open_price,
                 open_divergences, divRisk, risk, out, hist, rout, tripped,
                 life, hub, agg, exec, redeem, stats, tasks, boot, chan >>

CallFairYes ==
    /\ \E s \in FairPrices, o \in FairPrices, t \in FairFracs :
          calc' = [ op |-> "fair_yes", spot_now |-> s, open_price |-> o,
                    time_remaining_frac |-> t, result |-> fair_yes(s, o, t) ]
    /\ CalcFrame

NextFair == CallFairYes

SpecFair == InitFair /\ [][NextFair]_vars

\* C23: fair_yes(spot, open, t) lies in [0.05, 0.95] for all inputs; it is
\* exactly 0.50 when spot <= 0, open <= 0 or t < 0, and exactly 0.50 when
\* spot = open > 0, for every t in [0, 1].
C23_FairYesRange ==
    calc.op = "fair_yes" =>
        LET s == calc.spot_now
            o == calc.open_price
            t == calc.time_remaining_frac
            r == calc.result
        IN  /\ ~r.nan /\ 500 <= r.v /\ r.v <= 9500
            /\ (LeZero(s) \/ LeZero(o) \/ LtZero(t)) => r = Num(5000)
            /\ (~s.nan /\ s = o /\ s.v > 0 /\ ~t.nan /\ 0 <= t.v /\ t.v <= TrDen)
                   => r = Num(5000)

-----------------------------------------------------------------------------
(* Clock alignment.  now_secs() is a real number: here a whole number of   *)
(* 1 / ClockDen seconds.  floor(now / d) = floor(floor(now) / d) for a      *)
(* whole d, so the window start is that of the whole second.               *)

\* the clock is read in units of 1 / ClockDen seconds
ClockDen == 2
\* the clock readings tried: 0 .. ClockTicks, in those units
ClockTicks == 24
\* the window durations tried: 1 .. MaxWindowDur seconds
MaxWindowDur == 5

InitClock == InitFair

\* current_window_start(d) and next_window_start(d) read at the same clock
CallWindowStart ==
    /\ \E n \in 0 .. ClockTicks, d \in 1 .. MaxWindowDur :
          calc' = [ op |-> "window_start", now_ticks |-> n, d |-> d,
                    current |-> CurrentWindowStart(n \div ClockDen, d),
                    next |-> NextWindowStart(n \div ClockDen, d) ]
    /\ CalcFrame

NextClock == CallWindowStart

SpecClock == InitClock /\ [][NextClock]_vars

\* C24: for every now >= 0 and window duration d > 0, current_window_start(d)
\* is a multiple of d with current_window_start(d) <= now <
\* current_window_start(d) + d, next_window_start(d) - current_window_start(d)
\* = d, and so next_window_start(d) > now.
C24_ClockAlignment ==
    calc.op = "window_start" =>
        /\ calc.current % calc.d = 0
        /\ calc.current * ClockDen <= calc.now_ticks
        /\ calc.now_ticks < (calc.current + calc.d) * ClockDen
        /\ calc.next - calc.current = calc.d
        /\ calc.next * ClockDen > calc.now_ticks

\* a reading strictly inside a window, between two whole seconds
C24_Witness ==
    /\ calc.op = "window_start"
    /\ calc.d > 1
    /\ calc.now_ticks % ClockDen # 0
    /\ calc.current > 0
    /\ calc.current * ClockDen < calc.now_ticks

-----------------------------------------------------------------------------
(* The lifecycle's risk filter (specification SpecRisk, action CallFilter) *)

FilterIn == SelectSeq(rout.events, IsSignal)
FilterOut == SelectSeq(rout.forwarded, IsSignal)

\* C25: every Signal forwarded passed can_trade at forwarding time, carries
\* size_usd = position_size(edge, price) of the lifecycle's risk manager and
\* was counted by exactly one record_fill; a Signal rejected by can_trade is
\* dropped, neither forwarded nor counted; Converged events are forwarded
\* unchanged whatever the risk state, killed included.
C25_RiskFilter ==
    rout.op = "filter" =>
        /\ SelectSeq(rout.forwarded, IsConverged) = SelectSeq(rout.events, IsConverged)
        /\ Len(FilterOut) <= Len(FilterIn)
        /\ \A i \in 1 .. Len(FilterOut) :
              FilterOut[i] = [ FilterIn[i] EXCEPT !.sig.size_usd =
                                  PositionSize(risk, FilterIn[i].sig.edge,
                                               FilterIn[i].sig.price) ]
        /\ risk.open_positions = rout.openBefore + Len(FilterOut)
        /\ FilterOut # << >> =>
              /\ ~risk.killed /\ WithinLossCap
              /\ rout.openBefore + Len(FilterOut) <= MaxOpenPositions
        /\ Len(FilterOut) < Len(FilterIn) => ~CanTrade(risk, today).ok

\* one Signal forwarded, a later one rejected, a Converged passed on
C25_Witness ==
    /\ rout.op = "filter"
    /\ Len(FilterIn) = 2 /\ Len(FilterOut) = 1
    /\ SelectSeq(rout.forwarded, IsConverged) # << >>

\* a Converged passed on by a killed manager while the Signal is dropped
C25_KilledWitness ==
    /\ rout.op = "filter" /\ risk.killed
    /\ FilterIn # << >> /\ FilterOut = << >>
    /\ SelectSeq(rout.forwarded, IsConverged) # << >>

-----------------------------------------------------------------------------
(* The Signal and its side (specification Spec)                            *)

FvNo == 10000 - FvYes

\* C26: every Signal is consistent with its side: a BuyYes Signal carries
\* the window's yes_token with fair_value = fv_yes and clob_mid = yes_mid, a
\* BuyNo Signal the no_token with fair_value = fv_no and clob_mid = no_mid,
\* and the side chosen is the one whose edge (fair - mid of that side) is
\* the larger of the two.
C26_SignalMatchesSide ==
    out.evaluated =>
        \A i \in DOMAIN out.signals :
            LET sig == out.signals[i]
                yes_edge == FvYes - YesMid
                no_edge == FvNo - NoMid
            IN  /\ sig.side = "BUY_YES" =>
                      /\ sig.token_id = Window.yes_token
                      /\ sig.fair_value = FvYes /\ sig.clob_mid = YesMid
                      /\ yes_edge >= no_edge
                /\ sig.side = "BUY_NO" =>
                      /\ sig.token_id = Window.no_token
                      /\ sig.fair_value = FvNo /\ sig.clob_mid = NoMid
                      /\ no_edge >= yes_edge

-----------------------------------------------------------------------------
(* The lifecycle's monitor step and the executor joined by the event       *)
(* channel (specification SpecRetry): what the risk filter lets through is *)
(* sent on event_tx, and the executor's loop takes it from event_rx.       *)

\* the order books of the window while it is monitored
RetryBooks ==
    { [ yes |-> ParseBookUpdate(3800, 4200), no |-> ParseBookUpdate(4800, 5200) ],
      [ yes |-> ParseBookUpdate(4800, 5200), no |-> ParseBookUpdate(4800, 5200) ] }

\* the Signal as the executor reads it: the window's condition id, the
\* token id as the decimal string it is
AsExecSignal(sig) ==
    [ condition_id |-> "c1", side |-> sig.side, token_id |-> "7",
      price |-> sig.price, size_usd |-> sig.size_usd ]

\* q: the events in the channel, each Signal marked `live` while no
\* evaluation since its emission has failed a gate.  History: Signals sent,
\* execute_signal calls made, whether the Signal in execution is live, an
\* order failed in the present run of passing gates, a Signal was forwarded
\* in that run after the failure
ChanStart ==
    [ q |-> << >>, sent |-> 0, attempts |-> 0, curLive |-> FALSE,
      failedInRun |-> FALSE, fresh |-> FALSE ]

InitRetry ==
    /\ now = Window.open_time
    /\ today = 0
    /\ spot \in Spots
    /\ open_price \in Spots
    /\ books \in RetryBooks
    /\ priceDirty = TRUE
    /\ bookDirty = FALSE
    /\ pc = "monitor"
    /\ open_divergences = << >>
    /\ divRisk = NewRisk(today)
    /\ risk = NewRisk(today)
    /\ out = Quiet
    /\ hist = [runPass |-> FALSE, sides |-> {}, epSignal |-> FALSE, epMaxEdge |-> 0]
    /\ rout = NoCall
    /\ tripped = FALSE
    /\ exec = ExecStart
    /\ redeem = RedeemStart
    /\ stats = StatsStart
    /\ life = << >> /\ hub = << >> /\ agg = << >>
    /\ tasks = << >> /\ boot = << >> /\ calc = << >>
    /\ chan = ChanStart

ChanSignals(q) == SelectSeq(q, IsSignal)

\* the capacity of the event channel (mpsc::channel(256) in main.rs): a
\* send on a full channel waits
ChanCap == 2

\* the monitor loop evaluates and sends what the filter returned (main.rs:
\* `for ev in events { event_tx.send(ev).await }`)
MonitorSend ==
    /\ Len(chan.q) < ChanCap
    /\ MonitorStep
    /\ LET pass == hist'.runPass
           fwd  == out'.forwarded
           cvg  == out'.converged
       IN  chan' = [ chan EXCEPT
               !.q = [ i \in DOMAIN chan.q |->
                          [ chan.q[i] EXCEPT !.live = @ /\ pass ] ]
                     \o [ i \in DOMAIN fwd |->
                          [ kind |-> "signal", sig |-> AsExecSignal(fwd[i]),
                            live |-> pass ] ]
                     \o [ i \in DOMAIN cvg |->
                          [ kind |-> "converged", sig |-> NoSignal,
                            live |-> FALSE ] ],
               !.sent = @ + Len(fwd),
               !.curLive = @ /\ pass,
               !.failedInRun = @ /\ pass,
               !.fresh = @ \/ (chan.failedInRun /\ pass /\ fwd # << >>) ]
    /\ UNCHANGED << life, hub, agg, exec, redeem, stats, tasks, boot, calc >>

RetryFrame ==
    UNCHANGED << now, today, spot, books, priceDirty, bookDirty, pc, open_price,
                 open_divergences, divRisk, risk, out, hist, rout, tripped,
                 life, hub, agg, tasks, boot, calc >>

\* event_rx.recv() yields the Signal at the head of the channel
RecvSignal ==
    /\ exec.pc = "recv" /\ chan.q # << >> /\ IsSignal(Head(chan.q))
    /\ ExecTake(Head(chan.q).sig)
    /\ chan' = [chan EXCEPT !.q = Tail(@), !.curLive = Head(chan.q).live]
    /\ RetryFrame

\* event_rx.recv() yields a Converged event: it is logged
RecvConverged ==
    /\ exec.pc = "recv" /\ chan.q # << >> /\ IsConverged(Head(chan.q))
    /\ exec' = [exec EXCEPT !.last = [NoExecOp EXCEPT !.op = "converged"]]
    /\ chan' = [chan EXCEPT !.q = Tail(@)]
    /\ UNCHANGED << redeem, stats >>
    /\ RetryFrame

\* execute_signal returns, with an order placed or with an error
SignalDone ==
    /\ exec.pc = "executing"
    /\ \E fault \in Faults : ExecDone(fault)
    /\ chan' = [chan EXCEPT !.attempts = @ + 1,
                            !.curLive = FALSE,
                            !.failedInRun = @ \/ (exec'.last.result = "err"
                                                  /\ chan.curLive)]
    /\ RetryFrame

NextRetry ==
    \/ Tick \/ PriceUpdate \/ MonitorSend \/ Retire
    \/ RecvSignal \/ RecvConverged \/ SignalDone

SpecRetry == InitRetry /\ [][NextRetry]_vars

\* C27: after an order-placement failure the executor does not retry the
\* order: execute_signal runs once per Signal sent, and after an Err the
\* loop is back at recv with no order placed for that Signal.  (That a later
\* evaluation of the same window, with every gate still passing, forwards a
\* fresh Signal after the failure is the reachable state C27_Witness.)
C27_NoRetryAfterFailure ==
    /\ chan.attempts + (IF exec.pc = "executing" THEN 1 ELSE 0)
           + Len(ChanSignals(chan.q)) = chan.sent
    /\ (exec.last.op = "signal" /\ exec.last.result = "err") =>
           /\ exec.pc = "recv" /\ exec.current = NoSignal
           /\ exec.orders = exec.ordersBefore

\* an order failed, and a later evaluation of the window forwarded a second
\* Signal, no evaluation in between having failed a gate
C27_Witness ==
    /\ chan.fresh
    /\ chan.sent >= 2
    /\ hist.runPass

-----------------------------------------------------------------------------
(* Finalization of redeemed positions (specification SpecExec)             *)

\* the positions a cycle redeemed, from what each met in the cycle
CycleRedeemed ==
    { cid \in DOMAIN redeem.last.pendingBefore :
         /\ redeem.last.outcomes[cid].query \in {"UP", "DOWN"}
         /\ redeem.last.outcomes[cid].redeem = "ok" }

\* those of them that are wins: BUY_YES resolved UP, BUY_NO resolved DOWN
CycleWins ==
    { cid \in CycleRedeemed :
         \/ /\ redeem.last.pendingBefore[cid].side = "BUY_YES"
            /\ redeem.last.outcomes[cid].query = "UP"
         \/ /\ redeem.last.pendingBefore[cid].side = "BUY_NO"
            /\ redeem.last.outcomes[cid].query = "DOWN" }

\* size_usd * (1 / entry_price - 1) on a win, -size_usd on a loss, summed
RECURSIVE CyclePnl(_)
CyclePnl(cids) ==
    IF cids = {} THEN 0
    ELSE LET cid == CHOOSE c \in cids : TRUE
             pos == redeem.last.pendingBefore[cid]
         IN  ( IF cid \in CycleWins
               THEN (pos.size_usd * (10000 - pos.entry_price)) \div pos.entry_price
               ELSE 0 - pos.size_usd )
             + CyclePnl(cids \ {cid})

\* C28: each position handed to the redemption loop is finalized at most
\* once: on its successful redemption exactly one of wins / losses is
\* incremented (a win iff BUY_YES resolved UP or BUY_NO resolved DOWN), open
\* is decremented by one, the same pnl is added to total_pnl, session_pnl
\* and daily_pnl, and the position leaves the tracker, so that no later
\* cycle counts it again.
C28_FinalizedOnce ==
    /\ stats.wins + stats.losses + Cardinality(DOMAIN redeem.pending)
           + Len(exec.redeem_queue) <= exec.pushed
    /\ Len(redeem.trades) = stats.wins + stats.losses
    /\ redeem.last.op = "cycle" =>
           LET sb == redeem.last.statsBefore
           IN  /\ stats.wins = sb.wins + Cardinality(CycleWins)
               /\ stats.losses = sb.losses + Cardinality(CycleRedeemed \ CycleWins)
               /\ stats.open = sb.open - Cardinality(CycleRedeemed)
               /\ stats.total_pnl = sb.total_pnl + CyclePnl(CycleRedeemed)
               /\ stats.session_pnl = sb.session_pnl + CyclePnl(CycleRedeemed)
               /\ stats.daily_pnl = sb.daily_pnl + CyclePnl(CycleRedeemed)
               /\ CycleRedeemed \cap DOMAIN redeem.pending = {}

\* a cycle that redeems two positions, one a win and one a loss
C28_Witness ==
    /\ redeem.last.op = "cycle"
    /\ Cardinality(CycleRedeemed) = 2
    /\ Cardinality(CycleWins) = 1
    /\ stats.wins + stats.losses >= 2

-----------------------------------------------------------------------------
(* The end-of-window cancel of execute_signal (specification SpecCancel).  *)
(* Durations are in units of 1 / trDen seconds, trDen the denominator of   *)
(* time_remaining_frac, so that no product is rounded.                      *)

\* [discovery] window_duration_secs as configured: 5- and 15-minute windows
WindowDurs == { 300, 900 }

\* Window::time_remaining_frac at the Signal: time_remaining / duration
TimeRemainingFrac(time_remaining, dur) == [ num |-> time_remaining, den |-> dur ]

\* cancel_after: (time_remaining_frac * 300.0).max(5.0) - 5.0, then .max(2.0)
CancelAfter(frac) ==
    LET window_secs_left == Max(frac.num * 300, 5 * frac.den) - 5 * frac.den
    IN  Max(window_secs_left, 2 * frac.den)

InitCancel == InitFair

\* an order is posted for a Signal emitted time_remaining seconds before the
\* close of a window of dur seconds: one cancel task is spawned
ScheduleCancel ==
    /\ \E dur \in WindowDurs : \E tr \in 0 .. dur :
          calc' = [ op |-> "scheduled", dur |-> dur, time_remaining |-> tr,
                    den |-> dur, cancels |-> 1,
                    cancel_after |-> CancelAfter(TimeRemainingFrac(tr, dur)) ]
    /\ CalcFrame

\* the cancel task wakes and calls cancel_order: Ok or Err, logged either way
CancelFires ==
    /\ calc.op = "scheduled"
    /\ \E result \in { "ORDER_CANCELLED", "CANCEL_SKIPPED" } :
          calc' = [ calc EXCEPT !.op = result, !.cancels = 0 ]
    /\ CalcFrame

NextCancel == ScheduleCancel \/ CancelFires

SpecCancel == InitCancel /\ [][NextCancel]_vars

\* C29: for every posted order exactly one cancel is scheduled, to run
\* max(2, time_remaining_at_signal - 5) seconds after the order is placed,
\* for any configured window_duration_secs.
C29_CancelDelay ==
    calc.op = "scheduled" =>
        /\ calc.cancels = 1
        /\ calc.cancel_after = Max(2, calc.time_remaining - 5) * calc.den

\* the same for the one duration of 300 seconds
C29_CancelDelayFiveMinutes ==
    (calc.op = "scheduled" /\ calc.dur = 300) =>
        calc.cancel_after = Max(2, calc.time_remaining - 5) * calc.den

-----------------------------------------------------------------------------
(* A window without a spot price at its open (specification SpecLife).     *)
(* life.skipped holds the window_start of every window the loop left at    *)
(* the open-price capture; the window-open alert is raised in the capture  *)
(* step, the window-close alert in the retire step, and events are sent    *)
(* only from the evaluate step.                                            *)

\* C30: if the spot price read at open_time is non-positive the lifecycle
\* skips that window: open_price is never set for it, the evaluator is never
\* called for it, no event for it reaches the event channel, no window-open
\* or window-close alert is emitted, and the loop restarts at the pause gate.
C30_NoSpotSkipsWindow ==
    /\ life.last = "skip" =>
          /\ life.pc = "top"
          /\ life.writes = 0 /\ life.window.open_price = 0
          /\ life.steps = SubSeq(LifecycleOrder, 1, 4)
    /\ life.last \in { "capture", "evaluate", "retire" } =>
          life.window.window_start \notin life.skipped

\* the part of C30 that concerns the pass of the loop that met no spot
C30_SkippedPassDoesNothing ==
    life.last = "skip" =>
        /\ life.pc = "top"
        /\ life.writes = 0 /\ life.window.open_price = 0
        /\ life.steps = SubSeq(LifecycleOrder, 1, 4)

-----------------------------------------------------------------------------
(* main.rs run_asset_loop, lines 225-244: the book warm-up and the open    *)
(* wait that follows it (specification SpecWarm).  The clock is in whole   *)
(* seconds; the 100 ms sleep of the loop is shorter than one tick, so the  *)
(* poll may run any number of times within one second.                     *)

\* book_wait_deadline = now_secs() + 10.0
BookWaitSecs == 10
\* the warm-up is entered at a time in 0 .. MaxWarmEntry
MaxWarmEntry == 2
\* the clock of the warm-up runs from 0 to WarmHorizon
WarmHorizon == MaxWarmEntry + BookWaitSecs + 2

\* a warm-up that only ever leaves on data
WarmupExitOnDataOnly(has_data, t, deadline) ==
    IF has_data THEN "data" ELSE "sleep"

\* one pass of the warm-up loop: break on data, break once the deadline has
\* passed, otherwise sleep 100 ms
WarmupExit(has_data, t, deadline) ==
    IF has_data THEN "data"
    ELSE IF t > deadline THEN "timeout"
    ELSE "sleep"

\* the tokens the hub may store a book for while the lifecycle warms up
WarmTokens == {"yes", "no"}

\* the lifecycle at the head of the warm-up loop, entered at time t with
\* book_wait_deadline = now_secs() + 10.0
WarmStart(w, t) ==
    [ pc |-> "poll", window |-> w, deadline |-> t + BookWaitSecs, entered |-> w,
      exit |-> "none", left_at |-> 0, last |-> "start" ]

InitWarm ==
    /\ now \in 0 .. MaxWarmEntry
    /\ \E skew \in Skews :
          life = WarmStart(DiscoverWindow(NextWindowStart(now, Dur), skew, 1), now)
    /\ books \in {<< >>, [k \in {"no"} |-> ParseBookUpdate(4800, 5200)]}
    /\ today = 0 /\ spot = 0 /\ open_price = 0
    /\ priceDirty = FALSE /\ bookDirty = FALSE /\ pc = "idle"
    /\ open_divergences = << >> /\ divRisk = << >> /\ risk = << >>
    /\ out = << >> /\ hist = << >> /\ rout = << >> /\ tripped = FALSE
    /\ hub = << >> /\ agg = << >> /\ exec = << >> /\ redeem = << >>
    /\ stats = << >>
    /\ AuxOff

WarmFrame ==
    UNCHANGED << today, spot, priceDirty, bookDirty, pc, open_price,
                 open_divergences, divRisk, risk, out, hist, rout, tripped,
                 hub, agg, exec, redeem, stats, tasks, boot, calc, chan >>

\* the wall clock advances
WarmTick ==
    /\ now < WarmHorizon
    /\ now' = now + 1
    /\ life' = [life EXCEPT !.last = "env"]
    /\ UNCHANGED books
    /\ WarmFrame

\* the book hub stores a book for one of the subscribed tokens
WarmBook ==
    /\ \E k \in WarmTokens \ DOMAIN books :
          books' = [t \in DOMAIN books \cup {k} |->
                      IF t = k THEN ParseBookUpdate(4800, 5200) ELSE books[t]]
    /\ life' = [life EXCEPT !.last = "env"]
    /\ UNCHANGED now
    /\ WarmFrame

\* one pass of the loop body
WarmPoll ==
    /\ life.pc = "poll"
    /\ LET has_data == life.window.yes_token \in DOMAIN books
           exit == WarmupExit(has_data, now, life.deadline)
       IN  life' = [life EXCEPT
                      !.pc = IF exit = "sleep" THEN "sleep" ELSE "wait_open",
                      !.exit = exit,
                      !.left_at = IF exit = "sleep" THEN @ ELSE now,
                      !.last = "poll"]
    /\ UNCHANGED << now, books >>
    /\ WarmFrame

\* the 100 ms sleep returns
WarmSleep ==
    /\ life.pc = "sleep"
    /\ life' = [life EXCEPT !.pc = "poll", !.last = "sleep"]
    /\ UNCHANGED << now, books >>
    /\ WarmFrame

\* the sleep until open_time returns (at once when open_time has passed)
WarmWaitOpen ==
    /\ life.pc = "wait_open" /\ now >= life.window.open_time
    /\ life' = [life EXCEPT !.pc = "capture", !.last = "wait_open"]
    /\ UNCHANGED << now, books >>
    /\ WarmFrame

NextWarm ==
    \/ WarmTick \/ WarmBook \/ WarmPoll \/ WarmSleep \/ WarmWaitOpen

\* the clock advances, and the lifecycle task is scheduled whenever one of
\* its steps can run (tokio wakes a task whose sleep has elapsed)
SpecWarm ==
    /\ InitWarm /\ [][NextWarm]_vars
    /\ WF_vars(WarmTick) /\ WF_vars(WarmPoll) /\ WF_vars(WarmSleep)
    /\ WF_vars(WarmWaitOpen)

InWarmup == life.pc \in {"poll", "sleep"}

\* C31: the book warm-up always terminates: a poll that finds yes_token in
\* the snapshot leaves, a poll after the 10 s deadline leaves though the
\* token is absent, a poll leaves for no other reason, and the lifecycle
\* goes on to the open wait of the window it entered the warm-up with.
C31_WarmupTerminates ==
    /\ [](life.last = "poll" =>
            /\ (life.window.yes_token \in DOMAIN books) <=> (life.exit = "data")
            /\ (life.window.yes_token \notin DOMAIN books /\ now > life.deadline)
                   <=> (life.exit = "timeout")
            /\ (life.exit = "sleep") <=> (life.pc = "sleep"))
    /\ [](life.window = life.entered)
    /\ [](life.pc \in {"wait_open", "capture"} => life.exit \in {"data", "timeout"})
    /\ InWarmup ~> (life.pc = "wait_open")

\* the warm-up was left on the deadline, the token never having appeared
C31_Witness ==
    /\ life.pc = "wait_open" /\ life.exit = "timeout"
    /\ life.window.yes_token \notin DOMAIN books
    /\ life.left_at = life.deadline + 1

-----------------------------------------------------------------------------
(* feeds/mod.rs spawn_all and the run loops of the five feeds: delivery of *)
(* ticks to the aggregator's bounded channel (specification SpecFeeds).    *)

\* mpsc::channel::<PriceTick>(4096): the capacity of the model's channel
TickCap == 2

\* the feed tasks spawn_all starts
Feeds == {"binance", "coinbase", "kraken", "okx", "deribit"}

\* how each feed hands a tick to the channel: tx.try_send(tick) or
\* tx.send(tick).await
Delivery(f) == IF f = "binance" THEN "try_send" ELSE "send"

\* the feed after it read a tick off its socket, and the channel after it
Deliver(f, q) ==
    IF Len(q) < TickCap
    THEN [ pc |-> "reading", q |-> Append(q, f), dropped |-> FALSE ]
    ELSE IF Delivery(f) = "try_send"
         THEN [ pc |-> "reading", q |-> q, dropped |-> TRUE ]
         ELSE [ pc |-> "sending", q |-> q, dropped |-> FALSE ]

InitFeeds ==
    /\ now = 0 /\ today = 0 /\ spot = 0 /\ open_price = 0
    /\ books = << >> /\ priceDirty = FALSE /\ bookDirty = FALSE /\ pc = "idle"
    /\ open_divergences = << >> /\ divRisk = << >> /\ risk = << >>
    /\ out = << >> /\ hist = << >> /\ rout = << >> /\ tripped = FALSE
    /\ life = << >> /\ hub = << >> /\ agg = << >>
    /\ exec = << >> /\ redeem = << >> /\ stats = << >>
    /\ tasks = [ f \in Feeds |-> [ pc |-> "reading", dropped |-> 0 ] ]
    /\ chan = [ q |-> << >>, last |-> "start", by |-> "" ]
    /\ boot = << >> /\ calc = << >>

FeedsFrame ==
    UNCHANGED << now, today, spot, books, priceDirty, bookDirty, pc, open_price,
                 open_divergences, divRisk, risk, out, hist, rout, tripped,
                 life, hub, agg, exec, redeem, stats, boot, calc >>

\* a feed reads a trade off its socket and hands the tick to the channel
FeedRead ==
    /\ \E f \in Feeds :
          /\ tasks[f].pc = "reading"
          /\ LET d == Deliver(f, chan.q)
             IN  /\ tasks' = [tasks EXCEPT
                                ![f] = [ pc |-> d.pc,
                                         dropped |-> IF d.dropped THEN 1 ELSE @.dropped ]]
                 /\ chan' = [ q |-> d.q,
                              last |-> IF d.dropped THEN "dropped"
                                       ELSE IF d.pc = "sending" THEN "waits"
                                       ELSE "sent",
                              by |-> f ]
    /\ FeedsFrame

\* a slot is free: a pending tx.send(tick).await completes
FeedSendReturns ==
    /\ \E f \in Feeds :
          /\ tasks[f].pc = "sending" /\ Len(chan.q) < TickCap
          /\ tasks' = [tasks EXCEPT ![f].pc = "reading"]
          /\ chan' = [ q |-> Append(chan.q, f), last |-> "sent", by |-> f ]
    /\ FeedsFrame

\* the aggregator takes the next tick: tick_rx.recv().await
AggRecv ==
    /\ chan.q # << >>
    /\ chan' = [ q |-> Tail(chan.q), last |-> "recv", by |-> "aggregator" ]
    /\ UNCHANGED tasks
    /\ FeedsFrame

NextFeeds == FeedRead \/ FeedSendReturns \/ AggRecv

SpecFeeds == InitFeeds /\ [][NextFeeds]_vars

\* C32: every feed hands its ticks over without waiting: on a full channel
\* the tick is dropped and the feed goes on reading, so no feed task is ever
\* suspended on the channel.
C32_NoFeedWaitsOnChannel ==
    \A f \in Feeds : tasks[f].pc = "reading"

-----------------------------------------------------------------------------
(* feeds/aggregator.rs: what a lifecycle reads for its asset.  PriceState  *)
(* has one spot_price, the median over every active source, and main.rs    *)
(* reads it for whichever asset it asks about.                             *)

\* price_rx.borrow().spot_price(&asset): the spot PriceState holds
SpotPriceOf(state, asset) == state.spot_price
\* the timestamp PriceState holds
TimestampOf(state, asset) == state.timestamp_ms

\* C33: a tick for asset A changes only A's entry of PriceState: the price
\* and timestamp published for every other asset are as they were before
\* the tick.
C33_TickChangesOwnAssetOnly ==
    [][(agg'.last.op = "tick" /\ agg'.last.source \in Assets) =>
          \A b \in Assets \ {agg'.last.source} :
              /\ SpotPriceOf(agg'.published, b) = SpotPriceOf(agg.published, b)
              /\ TimestampOf(agg'.published, b) = TimestampOf(agg.published, b)]_vars

-----------------------------------------------------------------------------
(* markets/book.rs process_clob_message: what each CLOB message does to    *)
(* the snapshot (specification SpecBook).  Prices are in pips; the         *)
(* timestamp of a TokenBook is left out.                                   *)

\* f64::MAX, the start of the fold over the asks
F64Max == 1000000
\* a side of a "book" message carries at most MaxLevels levels
MaxLevels == 2

\* the levels a message may carry: a price and a size, as parsed
Levels ==
    { [price |-> 4800, size |-> 10], [price |-> 5200, size |-> 10],
      [price |-> 5200, size |-> 0] }
RECURSIVE SeqsUpTo(_, _)
SeqsUpTo(S, n) ==
    IF n = 0 THEN { << >> }
    ELSE LET shorter == SeqsUpTo(S, n - 1)
         IN  shorter \cup { Append(q, x) : q \in shorter, x \in S }

\* bids.iter().filter_map(size > 0).fold(0.0, f64::max)
RECURSIVE FoldMax(_, _)
FoldMax(levels, acc) ==
    IF levels = << >> THEN acc
    ELSE LET l == Head(levels)
         IN  FoldMax(Tail(levels), IF l.size > 0 THEN Max(acc, l.price) ELSE acc)

\* asks.iter().filter_map(size > 0).fold(f64::MAX, f64::min)
RECURSIVE FoldMin(_, _)
FoldMin(levels, acc) ==
    IF levels = << >> THEN acc
    ELSE LET l == Head(levels)
         IN  FoldMin(Tail(levels), IF l.size > 0 THEN Min(acc, l.price) ELSE acc)

\* parse_book_update on a message that has both arrays
ParseBookLevels(bids, asks) ==
    LET best_bid == FoldMax(bids, 0)
        best_ask == FoldMin(asks, F64Max)
    IN  [ best_bid |-> best_bid, best_ask |-> best_ask,
          mid |-> IF best_bid > 0 /\ best_ask < F64Max
                  THEN (best_bid + best_ask) \div 2 ELSE 0 ]

\* TokenBook::default()
DefaultBook == [ best_bid |-> 0, best_ask |-> 0, mid |-> 0 ]

\* the "best_bid_ask" arm: the entry (or a default one) takes the two prices
\* and their mean
ApplyBestBidAsk(snap, asset_id, bid, ask) ==
    [k \in DOMAIN snap \cup {asset_id} |->
        IF k = asset_id
        THEN [ best_bid |-> bid, best_ask |-> ask, mid |-> (bid + ask) \div 2 ]
        ELSE snap[k]]

\* the messages of the socket: kind "garbage" does not parse as JSON; the
\* arrays or the two prices may be missing (has = FALSE)
AssetIds == {"", "yes"}
EventTypes == {"book", "price_change", "best_bid_ask", "last_trade_price"}
BestPrices == {0 - 100, 0, 4800, 5200}

\* process_clob_message: the snapshot after a message
ProcessClobMessage(snap, m) ==
    IF m.kind = "garbage" THEN snap
    ELSE IF m.asset_id = "" THEN snap
    ELSE IF m.event_type \in {"book", "price_change"}
         THEN IF m.has
              THEN [k \in DOMAIN snap \cup {m.asset_id} |->
                       IF k = m.asset_id THEN ParseBookLevels(m.bids, m.asks)
                       ELSE snap[k]]
              ELSE snap
    ELSE IF m.event_type = "best_bid_ask"
         THEN IF m.has THEN ApplyBestBidAsk(snap, m.asset_id, m.bid, m.ask)
              ELSE snap
    ELSE snap

\* whether the message is one the hub acts on
Accepted(m) ==
    /\ m.kind = "json" /\ m.asset_id # "" /\ m.has
    /\ m.event_type \in {"book", "price_change", "best_bid_ask"}

\* what the history keeps of a message
Header(m) ==
    [ kind |-> m.kind, event_type |-> m.event_type, asset_id |-> m.asset_id,
      has |-> m.has ]

NoMessage ==
    [ kind |-> "none", event_type |-> "", asset_id |-> "", has |-> FALSE,
      bids |-> << >>, asks |-> << >>, bid |-> 0, ask |-> 0 ]

InitBook ==
    /\ now = 0 /\ today = 0 /\ spot = 0 /\ open_price = 0
    /\ books = << >> /\ priceDirty = FALSE /\ bookDirty = FALSE /\ pc = "idle"
    /\ open_divergences = << >> /\ divRisk = << >> /\ risk = << >>
    /\ out = << >> /\ hist = << >> /\ rout = << >> /\ tripped = FALSE
    /\ life = << >> /\ agg = << >>
    /\ hub = [ last |-> Header(NoMessage), changed |-> FALSE ]
    /\ exec = << >> /\ redeem = << >> /\ stats = << >>
    /\ AuxOff

BookFrame ==
    UNCHANGED << now, today, spot, priceDirty, bookDirty, pc, open_price,
                 open_divergences, divRisk, risk, out, hist, rout, tripped,
                 life, agg, exec, redeem, stats, tasks, boot, calc, chan >>

\* the hub handles message m; the history keeps the header of m and whether
\* the snapshot changed
Receive(m) ==
    /\ books' = ProcessClobMessage(books, m)
    /\ hub' = [ last |-> Header(m), changed |-> books' # books ]
    /\ BookFrame

\* a "book" or "price_change" message
BookLevelsMessage ==
    \E et \in {"book", "price_change"}, id \in AssetIds, has \in BOOLEAN :
      \E bids \in SeqsUpTo(Levels, MaxLevels), asks \in SeqsUpTo(Levels, MaxLevels) :
        /\ ~has => (bids = << >> /\ asks = << >>)
        /\ Receive([NoMessage EXCEPT !.kind = "json", !.event_type = et,
                                     !.asset_id = id, !.has = has,
                                     !.bids = bids, !.asks = asks])

\* a "best_bid_ask" message
BestBidAskMessage ==
    \E id \in AssetIds, has \in BOOLEAN, bid \in BestPrices, ask \in BestPrices :
        /\ ~has => (bid = 0 /\ ask = 0)
        /\ Receive([NoMessage EXCEPT !.kind = "json",
                                     !.event_type = "best_bid_ask",
                                     !.asset_id = id, !.has = has,
                                     !.bid = bid, !.ask = ask])

\* text that is not JSON, or a message of another event_type
OtherMessage ==
    \/ Receive([NoMessage EXCEPT !.kind = "garbage"])
    \/ \E id \in AssetIds :
          Receive([NoMessage EXCEPT !.kind = "json", !.asset_id = id,
                                    !.event_type = "last_trade_price"])

NextBook == BookLevelsMessage \/ BestBidAskMessage \/ OtherMessage

SpecBook == InitBook /\ [][NextBook]_vars

\* C34: every stored TokenBook has best_bid >= 0, mid = (best_bid + best_ask)/2
\* when both are positive and mid = 0 otherwise, and best_ask >= best_bid
\* when both are positive; a message that is not accepted leaves the
\* snapshot as it was.
C34_TokenBookInvariant ==
    /\ \A t \in DOMAIN books :
          LET b == books[t]
          IN  /\ b.best_bid >= 0
              /\ (b.best_bid > 0 /\ b.best_ask > 0) =>
                    (b.mid = (b.best_bid + b.best_ask) \div 2
                        /\ b.best_ask >= b.best_bid)
              /\ ~(b.best_bid > 0 /\ b.best_ask > 0) => b.mid = 0
    /\ (hub.last.kind # "none" /\ ~Accepted(hub.last)) => ~hub.changed

-----------------------------------------------------------------------------
(* fair_yes on two spots against one open price and one time fraction      *)
(* (specification SpecMono).  Prices are in cents: 8001 against 8000 is    *)
(* the smallest move the model's grid can state.                           *)

\* spots and open prices tried, cents
MonoSpots == { Num(v) : v \in {7900, 7999, 8000, 8001, 8010, 8400} }
MonoOpens == { Num(7999), Num(8000) }
\* time fractions in [0, 1], in units of 1 / TrDen
MonoFracs == { Num(v) : v \in 0 .. TrDen }

\* fair_yes is evaluated at two spots
CallFairYesPair ==
    /\ \E s1 \in MonoSpots, s2 \in MonoSpots, o \in MonoOpens, t \in MonoFracs :
          calc' = [ op |-> "fair_pair", s1 |-> s1, s2 |-> s2, open_price |-> o,
                    time_remaining_frac |-> t,
                    fv1 |-> fair_yes(s1, o, t), fv2 |-> fair_yes(s2, o, t) ]
    /\ CalcFrame

NextMono == CallFairYesPair

SpecMono == InitFair /\ [][NextMono]_vars

\* C35: for open > 0 and t in [0, 1], fair_yes does not decrease when spot
\* rises (s1 > s2 > 0), is above 0.50 when spot > open and below 0.50 when
\* spot < open.
C35_FairYesMonotone ==
    (/\ calc.op = "fair_pair"
     /\ calc.open_price.v > 0 /\ calc.s2.v > 0
     /\ 0 <= calc.time_remaining_frac.v /\ calc.time_remaining_frac.v <= TrDen) =>
        /\ ~calc.fv1.nan /\ ~calc.fv2.nan
        /\ calc.s1.v > calc.s2.v => calc.fv1.v >= calc.fv2.v
        /\ calc.s1.v > calc.open_price.v => calc.fv1.v > 5000
        /\ calc.s1.v < calc.open_price.v => calc.fv1.v < 5000

\* the smallest moves on either side of the open price, at window open
C35_Witness ==
    /\ calc.op = "fair_pair"
    /\ calc.open_price = Num(8000) /\ calc.time_remaining_frac = Num(TrDen)
    /\ calc.s1 = Num(8001) /\ calc.s2 = Num(7999)
    /\ calc.fv1.v > 5000 /\ calc.fv2.v < 5000

-----------------------------------------------------------------------------
(* The window a lifecycle turns to after it retired one (SpecLife).        *)

\* life.prev is the window the lifecycle retired last; it ran over
\* [window_start, window_start + Dur) when close_time was not moved
RetiredOnGrid ==
    /\ life.prev # NoWindow
    /\ life.prev.open_time = life.prev.window_start
    /\ life.prev.close_time = life.prev.window_start + Dur

\* C36: after a lifecycle has monitored the window [T, T + d) until it
\* expired, the discovery target it computes next, and every window it
\* discovers from then on, starts at T + 2d or later: the window starting at
\* T + d is never discovered by that lifecycle.
C36_NextWindowSkipped ==
    RetiredOnGrid =>
        /\ life.pc \in {"sleep", "discover"} =>
              life.next_start >= life.prev.window_start + 2 * Dur
        /\ (life.window # NoWindow /\ life.window.id > life.prev.id) =>
              life.window.window_start >= life.prev.window_start + 2 * Dur
        /\ life.last = "retire" => now >= life.prev.window_start + Dur

\* a window was discovered after one that was monitored to its end
C36_Witness ==
    /\ RetiredOnGrid
    /\ life.window # NoWindow /\ life.window.id > life.prev.id
    /\ life.window.window_start = life.prev.window_start + 2 * Dur

-----------------------------------------------------------------------------
(* markets/book.rs run_loop fed by the lifecycles' token_sub_tx            *)
(* (specification SpecSub): what becomes of a token list once it is in the *)
(* channel.  Connections, reads and frame sends may fail MaxFaults times   *)
(* in all; after that every connection and every send succeeds.            *)

\* the faults of the run: failed connects, failed sends, read errors
MaxFaults == 2
\* the token lists the lifecycles send, each once
SubLists == { {"t1", "t2"}, {"t3"} }

SubStart ==
    [ pc |-> "connect", subscribed_tokens |-> {}, live |-> {},
      faults |-> 0, sent |-> {}, last |-> "start" ]

InitSub ==
    /\ now = 0 /\ today = 0 /\ spot = 0 /\ open_price = 0
    /\ books = << >> /\ priceDirty = FALSE /\ bookDirty = FALSE /\ pc = "idle"
    /\ open_divergences = << >> /\ divRisk = << >> /\ risk = << >>
    /\ out = << >> /\ hist = << >> /\ rout = << >> /\ tripped = FALSE
    /\ life = << >> /\ agg = << >>
    /\ hub = SubStart
    /\ exec = << >> /\ redeem = << >> /\ stats = << >>
    /\ tasks = << >> /\ boot = << >> /\ calc = << >>
    /\ chan = << >>

SubFrame ==
    UNCHANGED << now, today, spot, books, priceDirty, bookDirty, pc, open_price,
                 open_divergences, divRisk, risk, out, hist, rout, tripped,
                 life, agg, exec, redeem, stats, tasks, boot, calc >>

\* a fault may still happen
MayFail == hub.faults < MaxFaults

\* a lifecycle: token_sub_tx.send(tokens).await, once per window
LifeSend ==
    /\ \E tokens \in SubLists :
          /\ ~(tokens \subseteq hub.sent)
          /\ chan' = Append(chan, tokens)
          /\ hub' = [hub EXCEPT !.sent = @ \cup tokens, !.last = "life_send"]
    /\ SubFrame

\* connect_ws: a connection, or an error, the 2 s sleep and another try
SubConnect ==
    /\ hub.pc = "connect"
    /\ \/ hub' = [hub EXCEPT !.pc = "resub", !.live = {}, !.last = "connected"]
       \/ MayFail /\ hub' = [hub EXCEPT !.faults = @ + 1, !.last = "connect_failed"]
    /\ UNCHANGED chan
    /\ SubFrame

\* on the new connection subscribed_tokens, when not empty, is sent again;
\* the select loop is entered whether that send succeeded or not
SubResubscribe ==
    /\ hub.pc = "resub"
    /\ \/ hub' = [hub EXCEPT !.pc = "select", !.live = hub.subscribed_tokens,
                             !.last = "resubscribed"]
       \/ /\ MayFail /\ hub.subscribed_tokens # {}
          /\ hub' = [hub EXCEPT !.pc = "select", !.faults = @ + 1,
                                !.last = "resubscribe_failed"]
    /\ UNCHANGED chan
    /\ SubFrame

\* token_rx.recv() yields the next list: the tokens not in subscribed_tokens
\* are sent in one frame; they enter subscribed_tokens only when the send
\* succeeded, and a failed send ends the connection
SubRecv ==
    /\ hub.pc = "select" /\ chan # << >>
    /\ LET new == NewTokens(Head(chan), hub.subscribed_tokens)
       IN  IF new = {}
           THEN hub' = [hub EXCEPT !.last = "nothing_new"]
           ELSE \/ hub' = [hub EXCEPT !.subscribed_tokens = @ \cup new,
                                      !.live = @ \cup new, !.last = "subscribed"]
                \/ MayFail /\ hub' = [hub EXCEPT !.pc = "backoff", !.faults = @ + 1,
                                                 !.last = "subscribe_failed"]
    /\ chan' = Tail(chan)
    /\ SubFrame

\* read.next() yields an error or the end of the stream
SubReadError ==
    /\ hub.pc = "select" /\ MayFail
    /\ hub' = [hub EXCEPT !.pc = "backoff", !.faults = @ + 1, !.last = "read_error"]
    /\ UNCHANGED chan
    /\ SubFrame

\* ping_task.abort(), the 1 s sleep, and back to connect_ws
SubBackoff ==
    /\ hub.pc = "backoff"
    /\ hub' = [hub EXCEPT !.pc = "connect", !.live = {}, !.last = "backoff"]
    /\ UNCHANGED chan
    /\ SubFrame

NextSub ==
    \/ LifeSend \/ SubConnect \/ SubResubscribe \/ SubRecv \/ SubReadError
    \/ SubBackoff

\* the hub task is scheduled whenever it can take a step; the lifecycles
\* and the faults are under no obligation
SpecSub ==
    /\ InitSub /\ [][NextSub]_vars
    /\ WF_vars(SubConnect) /\ WF_vars(SubResubscribe) /\ WF_vars(SubRecv)
    /\ WF_vars(SubBackoff)

\* C37: every token a lifecycle has sent to the hub is eventually in
\* subscribed_tokens and in a frame sent successfully on the live
\* connection, the lifecycle sending it once only.
C37_SentTokenSubscribed ==
    \A t \in UNION SubLists :
        (t \in hub.sent) ~> (t \in hub.subscribed_tokens /\ t \in hub.live)

-----------------------------------------------------------------------------
(* SharedLiveStats.open against the orders of the executor (SpecExec).     *)

\* the executor awaits the next event and the redemption loop has nothing
\* tracked and nothing waiting on its channel
AllRedeemed ==
    /\ exec.pc = "recv"
    /\ DOMAIN redeem.pending = {} /\ exec.redeem_queue = << >>

\* C38: with the executor and the redemption loop idle, stats.open is the
\* number of orders posted and not yet finalized: the number of orders
\* posted as long as no redemption has been finalized, and 0 once every
\* position handed to the redemption loop has been redeemed.
C38_OpenCountsPostedOrders ==
    /\ (exec.pc = "recv" /\ stats.wins + stats.losses = 0) =>
          stats.open = Len(exec.orders)
    /\ AllRedeemed => stats.open = 0


(***************************************************************************)
(* The lifecycle under fair scheduling: the clock advances and every step  *)
(* of run_asset_loop that can run does run.  The aggregator and the book   *)
(* hub are the environment: nothing obliges them to publish again.         *)
(***************************************************************************)
SpecLifeFair ==
    /\ InitLife /\ [][NextLife]_vars
    /\ WF_vars(LifeTick)
    /\ WF_vars(LifePauseGate) /\ WF_vars(LifeSchedule) /\ WF_vars(LifeWake)
    /\ WF_vars(LifeDiscover) /\ WF_vars(LifeSubscribe) /\ WF_vars(LifeWarmup)
    /\ WF_vars(LifeWaitOpen) /\ WF_vars(LifeCapture)
    /\ WF_vars(LifeMonitor) /\ WF_vars(LifeEvaluate) /\ WF_vars(LifeRetire)

\* C39: every window that enters the monitor step (and whose close_time the
\* clock reaches) is eventually retired: the lifecycle reaches the retire
\* step and the window leaves the set of windows in progress, even when no
\* price update and no book update arrives after close_time.
C39_MonitoredWindowRetired ==
    \A i \in 1 .. MaxCalls :
        (Monitoring /\ life.window.id = i /\ life.window.close_time <= Horizon)
            ~> (i \notin life.in_progress)


-----------------------------------------------------------------------------
(* One lifecycle's risk manager over the run of the process                *)
(* (specification SpecRun): windows follow one another, the executor and   *)
(* the redemption loop work on the Signals the lifecycle forwarded         *)

\* windows one lifecycle monitors in the modelled run
MaxWindows == 3
\* Signals one evaluation hands to the risk filter
MaxPerPass == 2
SignalLists == UNION { [ 1 .. n -> SampleSignals ] : n \in 1 .. MaxPerPass }

\* run_asset_loop: `let mut risk = RiskManager::new(&cfg)` before the loop
RunStart ==
    [ pc |-> "idle", windows |-> 0,
      \* history: Signals forwarded since the process started
      forwarded |-> 0 ]

InitRun ==
    /\ now = 0 /\ today = 0 /\ spot = 0 /\ open_price = 0
    /\ books = << >> /\ priceDirty = FALSE /\ bookDirty = FALSE /\ pc = "idle"
    /\ open_divergences = << >> /\ divRisk = << >>
    /\ risk = NewRisk(today)
    /\ out = [signals |-> 0, forwarded |-> 0]
    /\ hist = << >> /\ rout = << >> /\ tripped = FALSE
    /\ life = RunStart
    /\ hub = << >> /\ agg = << >> /\ exec = << >> /\ redeem = << >>
    /\ stats = [open |-> 0, failed |-> 0, daily_pnl |-> 0]
    /\ tasks = << >> /\ boot = << >> /\ calc = << >>
    \* Signals in the event channel, not yet received by the executor
    /\ chan = 0

RunFrame ==
    UNCHANGED << now, spot, books, priceDirty, bookDirty, pc, open_price,
                 open_divergences, divRisk, hist, rout, tripped,
                 hub, agg, exec, redeem, tasks, boot, calc >>

\* midnight UTC passes
RunDay ==
    /\ today < MaxDay
    /\ today' = today + 1
    /\ UNCHANGED << risk, out, life, stats, chan >>
    /\ RunFrame

\* the next window reaches its monitor loop; risk is the variable declared
\* before the outer loop
RunOpen ==
    /\ life.pc = "idle" /\ life.windows < MaxWindows
    /\ life' = [life EXCEPT !.pc = "monitor", !.windows = @ + 1]
    /\ UNCHANGED << today, risk, out, stats, chan >>
    /\ RunFrame

\* one pass of the monitor loop whose evaluation returned Signals: the risk
\* filter, then event_tx.send for each Signal that survived
RunPass ==
    /\ life.pc = "monitor"
    /\ \E sigs \in SignalLists :
          LET flt == RiskFilter(sigs, risk, today)
          IN  /\ risk' = flt.risk
              /\ out' = [signals |-> Len(sigs), forwarded |-> Len(flt.signals)]
              /\ life' = [life EXCEPT !.forwarded = @ + Len(flt.signals)]
              /\ chan' = chan + Len(flt.signals)
    /\ UNCHANGED << today, stats >>
    /\ RunFrame

\* the window expires and is retired
RunRetire ==
    /\ life.pc = "monitor"
    /\ life' = [life EXCEPT !.pc = "idle"]
    /\ UNCHANGED << today, risk, out, stats, chan >>
    /\ RunFrame

\* the executor receives a Signal: stats.open += 1, execute_signal; on Err
\* the increment is taken back, on Ok the position goes to the redemption
\* loop.  The lifecycle's RiskManager is not reachable from this task.
RunExecute ==
    /\ chan > 0
    /\ chan' = chan - 1
    /\ \/ stats' = [stats EXCEPT !.open = @ + 1]
       \/ stats' = [stats EXCEPT !.failed = @ + 1]
    /\ UNCHANGED << today, risk, out, life >>
    /\ RunFrame

\* the redemption loop finalizes a position: stats.open -= 1,
\* stats.daily_pnl += pnl; it holds no RiskManager either
RunRedeem ==
    /\ stats.open > 0
    /\ \E pnl \in Pnls :
          stats' = [stats EXCEPT !.open = @ - 1, !.daily_pnl = @ + pnl]
    /\ UNCHANGED << today, risk, out, life, chan >>
    /\ RunFrame

NextRun ==
    \/ RunDay \/ RunOpen \/ RunPass \/ RunRetire \/ RunExecute \/ RunRedeem

SpecRun == InitRun /\ [][NextRun]_vars

\* C40: the lifecycle's risk manager counts every Signal it forwarded and
\* never gives a count back: open_positions equals the number of Signals
\* forwarded since the process started, whatever the executor and the
\* redemption loop did with them; so that number never exceeds
\* max_open_positions, and the manager's daily_pnl stays 0.
C40_RiskNeverReleased ==
    /\ risk.open_positions = life.forwarded
    /\ life.forwarded <= MaxOpenPositions
    /\ risk.daily_pnl = 0

\* a later window on a later day: every forwarded Signal has failed or was
\* redeemed with a loss or gain, and the filter still drops a fresh Signal
C40_Witness ==
    /\ life.windows > 1 /\ today > 0
    /\ life.forwarded = MaxOpenPositions
    /\ chan = 0 /\ stats.open = 0 /\ stats.failed > 0 /\ stats.daily_pnl # 0
    /\ out.signals > 0 /\ out.forwarded = 0

=============================================================================
